---- MODULE Spec2Model ----
(***************************************************************************)
(* Model of the brush-stroke label store (BrushHashTable and the fragment   *)
(* shaders that recompute its key) and of the segment query parser          *)
(* (parseSegmentQuery) of neuroglancer, followed by the query engine, the   *)
(* property maps, the segment index, the histogram list and the brush tool. *)
(*                                                                          *)
(* Numbers wider than 31 bits are kept as little-endian sequences of        *)
(* 16-bit limbs: a uint32 is <<lo, hi>>, a 64-bit key is                    *)
(* <<h1lo, h1hi, h2lo, h2hi>>.                                              *)
(***************************************************************************)
EXTENDS Integers, Sequences, FiniteSets, TLC

VARIABLES
  table,        \* HashMapUint64 contents: key -> value
  coordinates,  \* BrushHashTable.coordinates: key -> [z, y, x]
  lastOp,       \* the last store call: operation, arguments, result
  expect,       \* history: per well-formed point, the value of its last live add
  expectKey,    \* history: per key, the value of the last live add to that key
  sawInvalid,   \* history: some call so far had a malformed coordinate
  kin,          \* key check: the coordinate triple under test
  khost,        \* key check: key computed by the host (<<>> = not yet)
  kfrag,        \* key check: key computed by the fragment shader (<<>> = not yet)
  db,           \* parser: the preprocessed property map
  queryString,  \* parser: the query string
  qwords,       \* history: the words the query string was joined from
  startIndex,   \* parser: start of the next token
  parsed,       \* parser: the filter query built so far
  errors,       \* parser: the errors collected so far
  tokLog,       \* history: span and outcome of every token examined
  ppc,          \* parser: "start", "loop" or "done"
  result,       \* parser: the value returned
  xdb,          \* query engine: the preprocessed property map
  xqs,          \* query engine: the query string
  xquery,       \* query engine: the parse result (executeSegmentQuery writes to it)
  xres,         \* query engine: the QueryResult of executeSegmentQuery
  xhist,        \* query engine: the PropertyHistogram last computed
  xtext,        \* query engine: the texts of unparseSegmentQuery
  xpc,          \* query engine: "parse", "parsed" or "executed"
  mmaps,        \* property maps: the maps handed to normalize or merge
  mout,         \* property maps: the value returned
  mpc,          \* property maps: "call" or "done"
  sdb,          \* segment index: the PreprocessedSegmentPropertyMap
  shash,        \* segment index: the hash code of every id
  scall,        \* segment index: the last call, its arguments and what it returned
  scalls,       \* segment index: the number of calls made
  hdb,          \* histogram list: the database handed to updatePropertyHistograms
  hres,         \* histogram list: the current query result
  hlist,        \* histogram list: propertyHistograms
  hbounds,      \* histogram list: bounds
  hlog,         \* history: the last call, the list before it and what it recomputed
  brushRadius,  \* brush tool: BrushTool.brushRadius
  brushValue,   \* brush tool: BrushTool.brushValue
  dragging,     \* brush tool: a relative mouse drag is running
  dispatched    \* brush tool: the signals dispatched by the last event

brushVars == <<table, coordinates, lastOp, expect, expectKey, sawInvalid>>
keyVars == <<kin, khost, kfrag>>
parseVars == <<db, queryString, qwords, startIndex, parsed, errors, tokLog, ppc, result>>
execVars == <<xdb, xqs, xquery, xres, xhist, xtext, xpc>>
mapVars == <<mmaps, mout, mpc>>
segVars == <<sdb, shash, scall, scalls>>
cacheVars == <<hdb, hres, hlist, hbounds, hlog>>
toolVars == <<brushRadius, brushValue, dragging, dispatched>>
laterVars == <<segVars, cacheVars, toolVars>>
vars == <<table, coordinates, lastOp, expect, expectKey, sawInvalid, kin, khost, kfrag,
          db, queryString, qwords, startIndex, parsed, errors, tokLog, ppc, result,
          xdb, xqs, xquery, xres, xhist, xtext, xpc, mmaps, mout, mpc,
          sdb, shash, scall, scalls, hdb, hres, hlist, hbounds, hlog,
          brushRadius, brushValue, dragging, dispatched>>

----------------------------------------------------------------------------
(* Limb arithmetic *)

B == 65536

\* A JavaScript number used as a coordinate: sign, integer magnitude
\* (three limbs, < 2^48) and whether a fractional part of 0.5 is attached.
Num(neg, l0, l1, l2, half) == [neg |-> neg, mag |-> <<l0, l1, l2>>, half |-> half]
Nat32(lo, hi) == Num(FALSE, lo, hi, 0, FALSE)

RECURSIVE Xor16(_, _, _)
Xor16(a, b, n) ==
  IF n = 0 THEN 0
  ELSE (((a % 2) + (b % 2)) % 2) + 2 * Xor16(a \div 2, b \div 2, n - 1)

Xor32(a, b) == <<Xor16(a[1], b[1], 16), Xor16(a[2], b[2], 16)>>

\* two's complement negation modulo 2^32 of a non-zero <<lo, hi>>
Neg32(m) ==
  IF m[1] = 0 THEN <<0, B - m[2]>> ELSE <<B - m[1], (B - 1) - m[2]>>

\* `x >>> 0`: ToUint32 truncates toward zero and reduces modulo 2^32
ToUint32(c) ==
  LET m == <<c.mag[1], c.mag[2]>>
  IN IF c.neg /\ m # <<0, 0>> THEN Neg32(m) ELSE m

\* exact product of a limb sequence by a small constant (one more limb)
RECURSIVE MulCarry(_, _, _, _)
MulCarry(n, c, i, carry) ==
  IF i > Len(n) THEN <<carry>>
  ELSE LET t == n[i] * c + carry
       IN <<t % B>> \o MulCarry(n, c, i + 1, (t \div B))

\* JavaScript `a * c` on numbers: exact while the product is below 2^53,
\* which holds for every uint32 a and the constants used (< 2^52).
MulNumber(n, c) == MulCarry(n, c, 1, 0)

\* ToInt32 as applied by `^`: the low 32 bits
Low32(n) == <<n[1], n[2]>>

\* GLSL `a * c` on uint: wraps modulo 2^32
MulUint(u, c) == Low32(MulCarry(u, c, 1, 0))

----------------------------------------------------------------------------
(* BrushHashTable.getBrushKey *)

\* variant packing the two halves in the opposite order
getBrushKey_swapped(z, y, x) ==
  LET x1 == ToUint32(x)
      y1 == ToUint32(y)
      z1 == ToUint32(z)
      h1 == Xor32(Xor32(Low32(MulNumber(MulNumber(x1, 73), 1271)),
                        Low32(MulNumber(MulNumber(y1, 513), 1345))),
                  Low32(MulNumber(MulNumber(z1, 421), 675)))
      h2 == Xor32(Xor32(Low32(MulNumber(MulNumber(x1, 127), 337)),
                        Low32(MulNumber(MulNumber(y1, 111), 887))),
                  Low32(MulNumber(MulNumber(z1, 269), 325)))
  IN h2 \o h1

getBrushKey(z, y, x) ==
  LET x1 == ToUint32(x)
      y1 == ToUint32(y)
      z1 == ToUint32(z)
      h1 == Xor32(Xor32(Low32(MulNumber(MulNumber(x1, 73), 1271)),
                        Low32(MulNumber(MulNumber(y1, 513), 1345))),
                  Low32(MulNumber(MulNumber(z1, 421), 675)))
      h2 == Xor32(Xor32(Low32(MulNumber(MulNumber(x1, 127), 337)),
                        Low32(MulNumber(MulNumber(y1, 111), 887))),
                  Low32(MulNumber(MulNumber(z1, 269), 325)))
  IN h1 \o h2

----------------------------------------------------------------------------
(* HashMapUint64 (gpu_hash/hash_table): a map from 64-bit keys to values *)

EmptyMap == [k \in {} |-> 0]

HashMapHas(t, k) == k \in DOMAIN t

\* set adds the pair only when the key is absent
HashMapSet(t, k, v) ==
  IF k \in DOMAIN t THEN t
  ELSE [j \in (DOMAIN t) \cup {k} |-> IF j = k THEN v ELSE t[j]]

HashMapDelete(t, k) == [j \in (DOMAIN t) \ {k} |-> t[j]]

\* Map.prototype.set of the coordinate side map: insert or replace
MapSet(m, k, c) == [j \in (DOMAIN m) \cup {k} |-> IF j = k THEN c ELSE m[j]]

MapDelete(m, k) == [j \in (DOMAIN m) \ {k} |-> m[j]]

----------------------------------------------------------------------------
(* Inputs of the store operations *)

Zero == Nat32(0, 0)
Pt(z, y, x) == [z |-> z, y |-> y, x |-> x]

\* valid points; the second has the top bit set in two components
PValid ==
  { Pt(Zero, Zero, Zero),
    Pt(Zero, Nat32(0, 32768), Nat32(0, 32768)),
    Pt(Zero, Zero, Nat32(65535, 65535)) }

\* malformed points: x = -1, x = 2^32, x = 0.5
PInvalid ==
  { Pt(Zero, Zero, Num(TRUE, 1, 0, 0, FALSE)),
    Pt(Zero, Zero, Num(FALSE, 0, 0, 1, FALSE)),
    Pt(Zero, Zero, Num(FALSE, 0, 0, 0, TRUE)) }

Points == PValid \cup PInvalid

MaxBrushValue == 2
BrushValues == 1..MaxBrushValue

\* a coordinate is well-formed when it is an integer in [0, 2^32 - 1]
ValidCoord(c) == ~c.neg /\ ~c.half /\ c.mag[3] = 0
ValidPoint(p) == ValidCoord(p.z) /\ ValidCoord(p.y) /\ ValidCoord(p.x)

\* the keys of the points, computed once
KeyTable == [p \in Points |-> getBrushKey(p.z, p.y, p.x)]
KeyOf(p) == KeyTable[p]
Keys == {KeyTable[p] : p \in Points}

NoRet == [def |-> FALSE, val |-> 0]
Call(op, p, v, ret) == [op |-> op, p |-> p, v |-> v, ret |-> ret, thrown |-> "none"]

----------------------------------------------------------------------------
(* BrushHashTable operations *)

\* variant that omits the delete before the set
addBrushPointTable_noDelete(t, key, v) == HashMapSet(t, key, v)

addBrushPointTable(t, key, v) == HashMapSet(HashMapDelete(t, key), key, v)

AddBrushPoint(p, v) ==
  LET key == KeyOf(p)
  IN /\ table' = addBrushPointTable(table, key, v)
     /\ coordinates' = MapSet(coordinates, key, <<p.z, p.y, p.x>>)
     /\ lastOp' = Call("add", p, v, NoRet)
     /\ expect' = IF p \in PValid THEN [expect EXCEPT ![p] = v] ELSE expect
     /\ expectKey' = [expectKey EXCEPT ![key] = v]
     /\ sawInvalid' = (sawInvalid \/ ~ValidPoint(p))

\* variant that leaves the coordinate side map alone
deleteBrushPointCoordinates_keep(m, key) == m

deleteBrushPointCoordinates(m, key) == MapDelete(m, key)

\* variant that empties the primary map
deleteBrushPointTable_all(t, key) == EmptyMap

deleteBrushPointTable(t, key) == HashMapDelete(t, key)

DeleteBrushPoint(p) ==
  LET key == KeyOf(p)
  IN /\ table' = deleteBrushPointTable(table, key)
     /\ coordinates' = deleteBrushPointCoordinates(coordinates, key)
     /\ lastOp' = Call("delete", p, 0, NoRet)
     /\ expect' = IF p \in PValid THEN [expect EXCEPT ![p] = 0] ELSE expect
     /\ expectKey' = [expectKey EXCEPT ![key] = 0]
     /\ sawInvalid' = (sawInvalid \/ ~ValidPoint(p))

getBrushValue(t, p) ==
  LET key == KeyOf(p)
  IN IF HashMapHas(t, key) THEN [def |-> TRUE, val |-> t[key]] ELSE NoRet

hasBrushPoint(t, p) == HashMapHas(t, KeyOf(p))

GetBrushValue(p) ==
  /\ lastOp' = Call("get", p, 0, getBrushValue(table, p))
  /\ sawInvalid' = (sawInvalid \/ ~ValidPoint(p))
  /\ UNCHANGED <<table, coordinates, expect, expectKey>>

HasBrushPoint(p) ==
  /\ lastOp' = Call("has", p, 0, [def |-> hasBrushPoint(table, p), val |-> 0])
  /\ sawInvalid' = (sawInvalid \/ ~ValidPoint(p))
  /\ UNCHANGED <<table, coordinates, expect, expectKey>>

Clear ==
  /\ coordinates' = EmptyMap
  /\ table' = EmptyMap
  /\ lastOp' = Call("clear", Pt(Zero, Zero, Zero), 0, NoRet)
  /\ expect' = [p \in PValid |-> 0]
  /\ expectKey' = [k \in Keys |-> 0]
  /\ UNCHANGED sawInvalid

KeyInit ==
  /\ kin = Pt(Zero, Zero, Zero)
  /\ khost = <<>>
  /\ kfrag = <<>>

BrushInit ==
  /\ table = EmptyMap
  /\ coordinates = EmptyMap
  /\ lastOp = Call("new", Pt(Zero, Zero, Zero), 0, NoRet)
  /\ expect = [p \in PValid |-> 0]
  /\ expectKey = [k \in Keys |-> 0]
  /\ sawInvalid = FALSE

Add == \E p \in Points, v \in BrushValues : AddBrushPoint(p, v) /\ UNCHANGED <<keyVars, parseVars, execVars, mapVars, laterVars>>
Delete == \E p \in Points : DeleteBrushPoint(p) /\ UNCHANGED <<keyVars, parseVars, execVars, mapVars, laterVars>>
Get == \E p \in Points : GetBrushValue(p) /\ UNCHANGED <<keyVars, parseVars, execVars, mapVars, laterVars>>
Has == \E p \in Points : HasBrushPoint(p) /\ UNCHANGED <<keyVars, parseVars, execVars, mapVars, laterVars>>
ClearAll == Clear /\ UNCHANGED <<keyVars, parseVars, execVars, mapVars, laterVars>>


----------------------------------------------------------------------------
(* The fragment shaders that rebuild the key from a voxel position *)

\* GLSL uint(int): the two's complement bit pattern
UintOfInt(i) == ToUint32(i)

FragmentHash(x1, y1, z1) ==
  LET h1 == Xor32(Xor32(MulUint(MulUint(x1, 73), 1271),
                        MulUint(MulUint(y1, 513), 1345)),
                  MulUint(MulUint(z1, 421), 675))
      h2 == Xor32(Xor32(MulUint(MulUint(x1, 127), 337),
                        MulUint(MulUint(y1, 111), 887)),
                  MulUint(MulUint(z1, 269), 325))
  IN h1 \o h2

\* key.value[0] = h1, key.value[1] = h2, with z1 = uint(voxelPos.x),
\* y1 = uint(voxelPos.y), x1 = uint(voxelPos.z)
sliceViewKey_noSwap(voxelPos) ==
  FragmentHash(UintOfInt(voxelPos.x), UintOfInt(voxelPos.y), UintOfInt(voxelPos.z))

sliceViewKey(voxelPos) ==
  FragmentHash(UintOfInt(voxelPos.z), UintOfInt(voxelPos.y), UintOfInt(voxelPos.x))

Discarded == <<-1>>

\* the variant that discards fragments at negative voxel positions
guardedKey(voxelPos) ==
  IF voxelPos.x.neg \/ voxelPos.y.neg \/ voxelPos.z.neg THEN Discarded
  ELSE sliceViewKey(voxelPos)

\* the voxel position at which the shader is to find the host point (z, y, x)
VoxelOf(p) == [x |-> p.z, y |-> p.y, z |-> p.x]

\* an ivec3 component is a 32-bit signed integer
InInt32(c) ==
  /\ ~c.half /\ c.mag[3] = 0
  /\ IF c.neg THEN (c.mag[2] < 32768 \/ (c.mag[2] = 32768 /\ c.mag[1] = 0))
     ELSE c.mag[2] < 32768
NonNeg(c) == ~c.neg

KeySamples ==
  { Num(TRUE, 1, 0, 0, FALSE), Zero, Nat32(1, 0), Nat32(3, 0), Nat32(0, 1),
    Nat32(65535, 32767), Nat32(0, 32768), Nat32(65535, 65535) }

HostKey ==
  /\ khost = <<>>
  /\ khost' = getBrushKey(kin.z, kin.y, kin.x)
  /\ UNCHANGED <<kin, kfrag>>
  /\ UNCHANGED <<brushVars, parseVars, execVars, mapVars, laterVars>>

FragKeySlice ==
  /\ kfrag = <<>>
  /\ InInt32(kin.z) /\ InInt32(kin.y) /\ InInt32(kin.x)
  /\ kfrag' = sliceViewKey(VoxelOf(kin))
  /\ UNCHANGED <<kin, khost>>
  /\ UNCHANGED <<brushVars, parseVars, execVars, mapVars, laterVars>>

FragKeyGuarded ==
  /\ kfrag = <<>>
  /\ InInt32(kin.z) /\ InInt32(kin.y) /\ InInt32(kin.x)
  /\ kfrag' = guardedKey(VoxelOf(kin))
  /\ UNCHANGED <<kin, khost>>
  /\ UNCHANGED <<brushVars, parseVars, execVars, mapVars, laterVars>>

----------------------------------------------------------------------------
(* Strings are sequences of one-character strings.  Positions are 0-based   *)
(* as in JavaScript: the character at position i of s is s[i + 1].          *)

DigitChars == <<"0", "1", "2", "3", "4", "5", "6", "7", "8", "9">>
Digits == {DigitChars[i] : i \in 1..10}
DigitVal(c) == (CHOOSE i \in 1..10 : DigitChars[i] = c) - 1
LowerLetters == {"a", "b", "c", "d", "e", "i", "l", "m", "n", "q", "s", "x"}
UpperLetters == {"B", "N"}
Letters == LowerLetters \cup UpperLetters
WhiteSpace == {" ", "\t"}

toLowerCaseChar(c) == CASE c = "B" -> "b" [] c = "N" -> "n" [] OTHER -> c
toLowerCase(s) == [i \in 1..Len(s) |-> toLowerCaseChar(s[i])]

substring(s, a, b) == SubSeq(s, a + 1, b)
startsWith(w, p) == Len(w) >= Len(p) /\ SubSeq(w, 1, Len(p)) = p

\* s.indexOf(" ", start)
indexOfSpace(s, start) ==
  LET hits == {i \in start..(Len(s) - 1) : s[i + 1] = " "}
  IN IF hits = {} THEN -1 ELSE CHOOSE i \in hits : \A j \in hits : i <= j

\* array.indexOf(x): 0-based position of the first occurrence, or -1
indexOf(arr, x) ==
  LET hits == {i \in 1..Len(arr) : arr[i] = x}
  IN IF hits = {} THEN -1 ELSE (CHOOSE i \in hits : \A j \in hits : i <= j) - 1

includes(arr, x) == \E i \in 1..Len(arr) : arr[i] = x

----------------------------------------------------------------------------
(* Explicit id queries *)

\* idPattern = /^[,\s]*[0-9]+(?:[,\s]+[0-9]+)*[,\s]*$/ : only digits, commas
\* and white space, and at least one digit
idPatternMatches(q) ==
  /\ \A i \in 1..Len(q) : q[i] \in Digits \cup {","} \cup WhiteSpace
  /\ \E i \in 1..Len(q) : q[i] \in Digits

\* queryString.split(/[\s,]+/) without the empty parts, which the loop skips
RECURSIVE splitParts(_, _, _)
splitParts(q, i, cur) ==
  LET flush == IF cur = <<>> THEN <<>> ELSE <<cur>>
  IN IF i > Len(q) THEN flush
     ELSE IF q[i] \in WhiteSpace \cup {","}
          THEN flush \o splitParts(q, i + 1, <<>>)
          ELSE splitParts(q, i + 1, Append(cur, q[i]))

RECURSIVE stripZeros(_)
stripZeros(ds) ==
  IF Len(ds) > 1 /\ ds[1] = "0" THEN stripZeros(Tail(ds)) ELSE ds

\* numeric order of decimal numerals without leading zeros
bigintLess(a, b) ==
  \/ Len(a) < Len(b)
  \/ /\ Len(a) = Len(b)
     /\ \E i \in 1..Len(a) :
          /\ DigitVal(a[i]) < DigitVal(b[i])
          /\ \A j \in 1..(i - 1) : a[j] = b[j]

Uint64Max ==
  <<"1", "8", "4", "4", "6", "7", "4", "4", "0", "7",
    "3", "7", "0", "9", "5", "5", "1", "6", "1", "5">>

\* parseUint64: the value of a decimal numeral, or an exception when it is
\* not a numeral or exceeds 2^64 - 1
parseUint64(part) ==
  IF part = <<>> \/ \E i \in 1..Len(part) : part[i] \notin Digits
  THEN [ok |-> FALSE, value |-> <<>>]
  ELSE LET v == stripZeros(part)
       IN IF bigintLess(Uint64Max, v) THEN [ok |-> FALSE, value |-> <<>>]
          ELSE [ok |-> TRUE, value |-> v]

\* order of the numerals as strings (the default order of Array.sort)
stringLess(a, b) ==
  \/ \E i \in 1..Len(a) :
       /\ i <= Len(b)
       /\ DigitVal(a[i]) < DigitVal(b[i])
       /\ \A j \in 1..(i - 1) : a[j] = b[j]
  \/ Len(a) < Len(b) /\ SubSeq(b, 1, Len(a)) = a

RECURSIVE sortIds_default(_)
sortIds_default(idSet) ==
  IF idSet = {} THEN <<>>
  ELSE LET m == CHOOSE x \in idSet : \A y \in idSet \ {x} : stringLess(x, y)
       IN <<m>> \o sortIds_default(idSet \ {m})

\* Array.from(idSet).sort(bigintCompare)
RECURSIVE sortIds(_)
sortIds(idSet) ==
  IF idSet = {} THEN <<>>
  ELSE LET m == CHOOSE x \in idSet : \A y \in idSet \ {x} : bigintLess(x, y)
       IN <<m>> \o sortIds(idSet \ {m})

parseIds(q) ==
  LET parts == splitParts(q, 1, <<>>)
      idSet == {parseUint64(parts[i]).value :
                  i \in {j \in 1..Len(parts) : parseUint64(parts[j]).ok}}
  IN sortIds(idSet)

----------------------------------------------------------------------------
(* Numeric data type helpers (util/lerp) for an integer data type *)

RECURSIVE digitsValue(_, _)
digitsValue(ds, acc) ==
  IF ds = <<>> THEN acc ELSE digitsValue(Tail(ds), 10 * acc + DigitVal(ds[1]))

\* parseDataTypeValue: the integer a numeral denotes, or an exception
parseDataTypeValue(s) ==
  LET neg == s # <<>> /\ s[1] = "-"
      ds == IF neg THEN Tail(s) ELSE s
  IN IF ds = <<>> \/ \E i \in 1..Len(ds) : ds[i] \notin Digits
     THEN [ok |-> FALSE, value |-> 0]
     ELSE [ok |-> TRUE, value |-> IF neg THEN 0 - digitsValue(ds, 0) ELSE digitsValue(ds, 0)]

dataTypeValueNextAfter(value, sign) == value + sign
dataTypeCompare(a, b) == a - b
clampToInterval(bounds, v) ==
  IF v < bounds[1] THEN bounds[1] ELSE IF v > bounds[2] THEN bounds[2] ELSE v

----------------------------------------------------------------------------
(* parseSegmentQuery: the filter grammar *)

EmptyParsed ==
  [ regexp |-> <<>>, prefix |-> <<>>, includeTags |-> <<>>, excludeTags |-> <<>>,
    numericalConstraints |-> <<>>, sortBy |-> <<>>, includeColumns |-> <<>> ]

Err(b, e, msg) == <<[begin |-> b, end |-> e, message |-> msg]>>
Step(p, e) == [p |-> p, e |-> e]

\* db.numericalProperties
numericalProperties(d) == SelectSeq(d.properties, LAMBDA p : p.type = "number")

\* properties.find(p => p.id.toLowerCase() === fieldId && types.includes(p.type))
findProperty(props, fieldId, types) ==
  LET hits == {i \in 1..Len(props) :
                 toLowerCase(props[i].id) = fieldId /\ props[i].type \in types}
  IN IF hits = {} THEN 0 ELSE CHOOSE i \in hits : \A j \in hits : i <= j

\* index of the first element of arr whose fieldId is f, or 0
findField(arr, f) ==
  LET hits == {i \in 1..Len(arr) : arr[i].fieldId = f}
  IN IF hits = {} THEN 0 ELSE CHOOSE i \in hits : \A j \in hits : i <= j

checkTag(d, pq, tag, begin, endIndex) ==
  LET lowerCaseTag == toLowerCase(tag)
      lowerCaseTags == [i \in 1..Len(d.tagNames) |-> toLowerCase(d.tagNames[i])]
      tagIndex == indexOf(lowerCaseTags, lowerCaseTag)
  IN IF tagIndex = -1
     THEN [ok |-> FALSE, tag |-> <<>>, e |-> Err(begin, endIndex, "Invalid tag")]
     ELSE LET t == d.tagNames[tagIndex + 1]
          IN IF includes(pq.includeTags, t) \/ includes(pq.excludeTags, t)
             THEN [ok |-> FALSE, tag |-> <<>>, e |-> Err(begin, endIndex, "Duplicate tag")]
             ELSE [ok |-> TRUE, tag |-> t, e |-> <<>>]

includeTagToken(d, pq, word, start, endIndex) ==
  LET c == checkTag(d, pq, substring(word, 1, Len(word)), start + 1, endIndex)
  IN IF c.ok
     THEN Step([pq EXCEPT !.includeTags = Append(@, c.tag)], <<>>)
     ELSE Step(pq, c.e)

excludeTagToken(d, pq, word, start, endIndex) ==
  LET c == checkTag(d, pq, substring(word, 2, Len(word)), start + 2, endIndex)
  IN IF c.ok
     THEN Step([pq EXCEPT !.excludeTags = Append(@, c.tag)], <<>>)
     ELSE Step(pq, c.e)

IdField == <<"i", "d">>
LabelField == <<"l", "a", "b", "e", "l">>

sortToken(d, pq, word, start, endIndex) ==
  LET lower == toLowerCase(substring(word, 1, Len(word)))
      builtin == lower = IdField \/ lower = LabelField
      pi == findProperty(d.properties, lower, {"number", "label", "string"})
  IN IF ~builtin /\ pi = 0
     THEN Step(pq, Err(start + 1, endIndex, "Invalid field"))
     ELSE LET fieldId == IF builtin THEN lower ELSE d.properties[pi].id
          IN IF findField(pq.sortBy, fieldId) # 0
             THEN Step(pq, Err(start + 1, endIndex, "Duplicate sort field"))
             ELSE Step([pq EXCEPT !.sortBy =
                          Append(@, [order |-> word[1], fieldId |-> fieldId])], <<>>)

columnToken(d, pq, word, start, endIndex) ==
  LET lower == toLowerCase(substring(word, 1, Len(word)))
      pi == findProperty(d.properties, lower, {"number", "string"})
  IN IF lower = IdField \/ lower = LabelField THEN Step(pq, <<>>)
     ELSE IF pi = 0
     THEN Step(pq, Err(start + 1, endIndex, "Invalid field"))
     ELSE LET fieldId == d.properties[pi].id
          IN IF findField(pq.sortBy, fieldId) # 0 \/ includes(pq.includeColumns, fieldId)
             THEN Step(pq, <<>>)
             ELSE Step([pq EXCEPT !.includeColumns = Append(@, fieldId)], <<>>)

\* the scan of a pattern by new RegExp: depth counts the open groups, term
\* says whether a quantifier may follow ("atom"), has just been read
\* ("quantifier", a lazy "?" may follow) or may not follow ("none")
RECURSIVE regExpScan(_, _, _, _)
regExpScan(p, i, depth, term) ==
  IF i > Len(p) THEN depth = 0
  ELSE LET c == p[i]
       IN IF c = "\\" THEN i < Len(p) /\ regExpScan(p, i + 2, depth, "atom")
          ELSE IF c = "("
          THEN IF i < Len(p) /\ p[i + 1] = "?"
               THEN /\ i + 1 < Len(p)
                    /\ p[i + 2] \in {":", "=", "!"}
                    /\ regExpScan(p, i + 3, depth + 1, "none")
               ELSE regExpScan(p, i + 1, depth + 1, "none")
          ELSE IF c = ")" THEN depth > 0 /\ regExpScan(p, i + 1, depth - 1, "atom")
          ELSE IF c = "|" THEN regExpScan(p, i + 1, depth, "none")
          ELSE IF c = "["
          THEN LET close == {j \in (i + 1)..Len(p) : p[j] = "]"}
               IN /\ close # {}
                  /\ regExpScan(p, (CHOOSE j \in close : \A k \in close : j <= k) + 1,
                                depth, "atom")
          ELSE IF c \in {"*", "+"} THEN term = "atom" /\ regExpScan(p, i + 1, depth, "quantifier")
          ELSE IF c = "?"
          THEN /\ term \in {"atom", "quantifier"}
               /\ regExpScan(p, i + 1, depth, IF term = "atom" THEN "quantifier" ELSE "none")
          ELSE regExpScan(p, i + 1, depth, "atom")

\* new RegExp(pattern) throws on a syntax error: an unclosed or unopened
\* group, a quantifier with nothing to repeat, an unterminated class, a
\* trailing backslash
validRegExp(pattern) == regExpScan(pattern, 1, 0, "none")

noLabelProperty(d) == ~d.labels /\ Len(d.tagNames) = 0

\* variant without the check that a prefix is already set
regexpToken_noPrefixCheck(d, pq, word, start, endIndex) ==
  IF pq.regexp # <<>>
  THEN Step(pq, Err(start, endIndex, "Only one regular expression allowed"))
  ELSE IF noLabelProperty(d)
  THEN Step(pq, Err(start, endIndex, "No label property"))
  ELSE IF validRegExp(substring(word, 1, Len(word)))
  THEN Step([pq EXCEPT !.regexp = <<substring(word, 1, Len(word))>>], <<>>)
  ELSE Step(pq, Err(start, endIndex, "Invalid regular expression syntax"))

regexpToken(d, pq, word, start, endIndex) ==
  IF pq.regexp # <<>>
  THEN Step(pq, Err(start, endIndex, "Only one regular expression allowed"))
  ELSE IF pq.prefix # <<>>
  THEN Step(pq, Err(start, endIndex,
                        "Prefix cannot be combined with regular expression"))
  ELSE IF noLabelProperty(d)
  THEN Step(pq, Err(start, endIndex, "No label property"))
  ELSE IF validRegExp(substring(word, 1, Len(word)))
  THEN Step([pq EXCEPT !.regexp = <<substring(word, 1, Len(word))>>], <<>>)
  ELSE Step(pq, Err(start, endIndex, "Invalid regular expression syntax"))

prefixToken(d, pq, word, start, endIndex) ==
  IF pq.regexp # <<>>
  THEN Step(pq, Err(start, endIndex,
                        "Prefix cannot be combined with regular expression"))
  ELSE IF noLabelProperty(d)
  THEN Step(pq, Err(start, endIndex, "No label property"))
  ELSE IF pq.prefix # <<>>
  THEN Step([pq EXCEPT !.prefix = <<pq.prefix[1] \o <<" ">> \o word>>], <<>>)
  ELSE Step([pq EXCEPT !.prefix = <<word>>], <<>>)

\* word.match(/^([a-zA-Z][a-zA-Z0-9_]*)(<|<=|=|>=|>)(-?[0-9.].*)$/): the name
\* is the maximal run of name characters, and since the value cannot start
\* with "=", the operator takes a following "=" whenever there is one
constraintMatch(word) ==
  LET NameChars == Letters \cup Digits \cup {"_"}
      runs == {k \in 1..Len(word) : \A i \in 1..k : word[i] \in NameChars}
      n == IF runs = {} THEN 0 ELSE CHOOSE k \in runs : \A j \in runs : j <= k
      two == n + 2 <= Len(word) /\ word[n + 1] \in {"<", ">"} /\ word[n + 2] = "="
      opLen == IF two THEN 2 ELSE 1
      rest == SubSeq(word, n + opLen + 1, Len(word))
      restOk == /\ rest # <<>>
                /\ \/ rest[1] \in Digits \cup {"."}
                   \/ rest[1] = "-" /\ Len(rest) >= 2 /\ rest[2] \in Digits \cup {"."}
  IN IF /\ word # <<>> /\ word[1] \in Letters
        /\ n + 1 <= Len(word) /\ word[n + 1] \in {"<", "=", ">"}
        /\ restOk
     THEN [ok |-> TRUE, g1 |-> SubSeq(word, 1, n),
           g2 |-> SubSeq(word, n + 1, n + opLen), g3 |-> rest]
     ELSE [ok |-> FALSE, g1 |-> <<>>, g2 |-> <<>>, g3 |-> <<>>]

\* variant that replaces the bound instead of intersecting
narrowBounds_replace(propertyBounds, constraintBounds, op, value) ==
  LET origMin == clampToInterval(propertyBounds, constraintBounds[1])
      origMax == clampToInterval(propertyBounds, constraintBounds[2])
      newMax == CASE op = <<"<">> -> dataTypeValueNextAfter(value, -1)
                  [] op = <<"<", "=">> -> value
                  [] op = <<"=">> -> value
                  [] OTHER -> origMax
      newMin == CASE op = <<"=">> -> value
                  [] op = <<">", "=">> -> value
                  [] op = <<">">> -> dataTypeValueNextAfter(value, 1)
                  [] OTHER -> origMin
  IN <<newMin, newMax>>

\* the interval a constraint token leaves: the new bound, kept inside the
\* previous interval
narrowBounds(propertyBounds, constraintBounds, op, value) ==
  LET origMin == clampToInterval(propertyBounds, constraintBounds[1])
      origMax == clampToInterval(propertyBounds, constraintBounds[2])
      newMax == CASE op = <<"<">> -> dataTypeValueNextAfter(value, -1)
                  [] op = <<"<", "=">> -> value
                  [] op = <<"=">> -> value
                  [] OTHER -> origMax
      newMin == CASE op = <<"=">> -> value
                  [] op = <<">", "=">> -> value
                  [] op = <<">">> -> dataTypeValueNextAfter(value, 1)
                  [] OTHER -> origMin
  IN << IF dataTypeCompare(origMin, newMin) > 0 THEN origMin ELSE newMin,
        IF dataTypeCompare(origMax, newMax) < 0 THEN origMax ELSE newMax >>

constraintToken(d, pq, m, start, endIndex) ==
  LET lower == toLowerCase(m.g1)
      nprops == numericalProperties(d)
      pi == findProperty(nprops, lower, {"number"})
  IN IF pi = 0
     THEN Step(pq, Err(start, start + Len(lower), "Invalid numerical field"))
     ELSE
       LET property == nprops[pi]
           fieldId == property.id
           v == parseDataTypeValue(m.g3)
       IN IF ~v.ok
          THEN Step(pq, Err(start + Len(m.g1) + Len(m.g2), endIndex,
                                "Invalid value"))
          ELSE
            LET ci0 == findField(pq.numericalConstraints, fieldId)
                pushed == IF ci0 # 0 THEN pq
                          ELSE [pq EXCEPT !.numericalConstraints =
                                  Append(@, [fieldId |-> fieldId, bounds |-> property.bounds])]
                ci == findField(pushed.numericalConstraints, fieldId)
                nb == narrowBounds(property.bounds,
                                   pushed.numericalConstraints[ci].bounds, m.g2, v.value)
            IN IF dataTypeCompare(nb[1], nb[2]) > 0
               THEN Step(pushed, Err(start, endIndex,
                                     "Constraint would not match any values"))
               ELSE Step([pushed EXCEPT !.numericalConstraints[ci].bounds = nb], <<>>)

\* one iteration of the token loop starting at startIndex
tokenStep(d, pq, q, start) ==
  LET sp == indexOfSpace(q, start)
      endIndex == IF sp = -1 THEN Len(q) ELSE sp
      nextStartIndex == IF sp = -1 THEN Len(q) ELSE sp + 1
      word == substring(q, start, endIndex)
      m == constraintMatch(word)
      r == IF Len(word) = 0 THEN Step(pq, <<>>)
           ELSE IF startsWith(word, <<"#">>)
           THEN includeTagToken(d, pq, word, start, endIndex)
           ELSE IF startsWith(word, <<"-", "#">>)
           THEN excludeTagToken(d, pq, word, start, endIndex)
           ELSE IF startsWith(word, <<"<">>) \/ startsWith(word, <<">">>)
           THEN sortToken(d, pq, word, start, endIndex)
           ELSE IF startsWith(word, <<"|">>)
           THEN columnToken(d, pq, word, start, endIndex)
           ELSE IF startsWith(word, <<"/">>)
           THEN regexpToken(d, pq, word, start, endIndex)
           ELSE IF m.ok
           THEN constraintToken(d, pq, m, start, endIndex)
           ELSE prefixToken(d, pq, word, start, endIndex)
  IN [p |-> r.p, e |-> r.e, next |-> nextStartIndex, endIndex |-> endIndex,
      word |-> word]

getDefaultSortField(d) == IF d.hasTags \/ d.labels THEN LabelField ELSE IdField

NoResult == [kind |-> "none", ids |-> <<>>, query |-> EmptyParsed, errors |-> <<>>]

\* the value returned after the token loop
parseResult(d, pq, errs) ==
  IF Len(errs) > 0
  THEN [kind |-> "errors", ids |-> <<>>, query |-> EmptyParsed, errors |-> errs]
  ELSE [kind |-> "filter", ids |-> <<>>, errors |-> <<>>,
        query |-> IF Len(pq.sortBy) = 0
                  THEN [pq EXCEPT !.sortBy =
                          <<[order |-> "<", fieldId |-> getDefaultSortField(d)]>>]
                  ELSE pq]

\* variant that leaves the loop at the first error
loopCondition_failFast(q, start, errs) == start < Len(q) /\ errs = <<>>

loopCondition(q, start, errs) == start < Len(q)

----------------------------------------------------------------------------
(* Databases and query strings the parser is run on *)

Prop(id, type, bounds) == [id |-> id, type |-> type, bounds |-> bounds]

\* a label property, tags a and B, a numeric property N with bounds [0, 10]
DbFull ==
  [ labels |-> TRUE, hasTags |-> TRUE, tagNames |-> << <<"a">>, <<"B">> >>,
    properties |-> << Prop(<<"l">>, "label", <<0, 0>>), Prop(<<"t">>, "tags", <<0, 0>>),
                      Prop(<<"N">>, "number", <<0, 10>>), Prop(<<"s">>, "string", <<0, 0>>) >> ]

\* no label property and no tags property
DbBare ==
  [ labels |-> FALSE, hasTags |-> FALSE, tagNames |-> <<>>,
    properties |-> << Prop(<<"N">>, "number", <<0, 10>>) >> ]

\* a tags property with an empty vocabulary and no label property
DbEmptyTags ==
  [ labels |-> FALSE, hasTags |-> TRUE, tagNames |-> <<>>,
    properties |-> << Prop(<<"t">>, "tags", <<0, 0>>), Prop(<<"N">>, "number", <<0, 10>>) >> ]

Databases == {DbFull, DbBare, DbEmptyTags}

IdWords ==
  { <<"5", ",">>, <<"3", ",", "3">>, <<"1", "0">>, <<>>, <<"7", "\t", "8">>, <<"x">>,
    <<"1", "8", "4", "4", "6", "7", "4", "4", "0", "7",
      "3", "7", "0", "9", "5", "5", "1", "6", "1", "6">>,
    Uint64Max }

FilterWords ==
  { <<"#", "a">>, <<"-", "#", "a">>, <<"#", "x">>, <<"/", "a">>, <<"/", "(">>,
    <<"a", "b">>, <<"<", "i", "d">>, <<"<", "q">>, <<"|", "n">>, <<>> }

ConstraintWords ==
  { <<"n", ">", "=", "2">>, <<"n", "<", "=", "8">>, <<"n", "=", "1", "0", "0">>,
    <<"n", "<", "5">>, <<"n", ">", "5">>, <<"n", "=", "3">>, <<"m", "=", "1">>,
    <<"n", "=", ".">> }

WordFamilies == {IdWords, FilterWords, ConstraintWords}

MaxTokens == 3

RECURSIVE joinWords(_)
joinWords(ws) ==
  IF ws = <<>> THEN <<>>
  ELSE IF Len(ws) = 1 THEN ws[1]
  ELSE ws[1] \o <<" ">> \o joinWords(Tail(ws))

----------------------------------------------------------------------------
(* parseSegmentQuery as a state machine: one step per token *)

ParseInit ==
  /\ db \in Databases
  /\ \E fam \in WordFamilies, k \in 0..MaxTokens :
       qwords \in [1..k -> fam]
  /\ queryString = joinWords(qwords)
  /\ startIndex = 0
  /\ parsed = EmptyParsed
  /\ errors = <<>>
  /\ tokLog = <<>>
  /\ ppc = "start"
  /\ result = NoResult

ParseIdle ==
  /\ db = DbFull
  /\ qwords = <<>>
  /\ queryString = <<>>
  /\ startIndex = 0
  /\ parsed = EmptyParsed
  /\ errors = <<>>
  /\ tokLog = <<>>
  /\ ppc = "start"
  /\ result = NoResult

\* the whole string is an id list
ParseIds ==
  /\ ppc = "start"
  /\ idPatternMatches(queryString)
  /\ result' = [kind |-> "ids", ids |-> parseIds(queryString),
                query |-> EmptyParsed, errors |-> <<>>]
  /\ ppc' = "done"
  /\ UNCHANGED <<db, queryString, qwords, startIndex, parsed, errors, tokLog>>
  /\ UNCHANGED <<brushVars, keyVars, execVars, mapVars, laterVars>>

ParseBegin ==
  /\ ppc = "start"
  /\ ~idPatternMatches(queryString)
  /\ ppc' = "loop"
  /\ UNCHANGED <<db, queryString, qwords, startIndex, parsed, errors, tokLog, result>>
  /\ UNCHANGED <<brushVars, keyVars, execVars, mapVars, laterVars>>

ParseToken ==
  /\ ppc = "loop"
  /\ loopCondition(queryString, startIndex, errors)
  /\ LET t == tokenStep(db, parsed, queryString, startIndex)
     IN /\ parsed' = t.p
        /\ errors' = errors \o t.e
        /\ startIndex' = t.next
        /\ tokLog' = IF Len(t.word) = 0 THEN tokLog
                     ELSE Append(tokLog, [begin |-> startIndex, end |-> t.endIndex,
                                          bad |-> t.e # <<>>])
  /\ UNCHANGED <<db, queryString, qwords, ppc, result>>
  /\ UNCHANGED <<brushVars, keyVars, execVars, mapVars, laterVars>>

ParseFinish ==
  /\ ppc = "loop"
  /\ ~loopCondition(queryString, startIndex, errors)
  /\ result' = parseResult(db, parsed, errors)
  /\ ppc' = "done"
  /\ UNCHANGED <<db, queryString, qwords, startIndex, parsed, errors, tokLog>>
  /\ UNCHANGED <<brushVars, keyVars, execVars, mapVars, laterVars>>

----------------------------------------------------------------------------
(* parseSegmentQuery as a function of the database and the query string *)

RECURSIVE parseLoop(_, _, _, _, _)
parseLoop(d, pq, q, start, errs) ==
  IF loopCondition(q, start, errs)
  THEN LET t == tokenStep(d, pq, q, start)
       IN parseLoop(d, t.p, q, t.next, errs \o t.e)
  ELSE parseResult(d, pq, errs)

parseSegmentQuery(d, q) ==
  IF idPatternMatches(q)
  THEN [kind |-> "ids", ids |-> parseIds(q), query |-> EmptyParsed, errors |-> <<>>]
  ELSE parseLoop(d, EmptyParsed, q, 0, <<>>)

----------------------------------------------------------------------------
(* The property database.  A numerical value is Number(n) for the integer n  *)
(* or NaN; a tags value is a string of character codes, kept as a sequence   *)
(* of integers.                                                              *)

Number(n) == [nan |-> FALSE, v |-> n]
NaN == [nan |-> TRUE, v |-> 0]
isNaN(value) == value.nan

StringProperty(id, type, values) ==
  [id |-> id, type |-> type, dataType |-> "none", bounds |-> <<0, 0>>,
   values |-> values, tags |-> <<>>, tagDescriptions |-> <<>>]

TagsProperty(id, tags, tagDescriptions, values) ==
  [id |-> id, type |-> "tags", dataType |-> "none", bounds |-> <<0, 0>>,
   values |-> values, tags |-> tags, tagDescriptions |-> tagDescriptions]

\* dataType "float32" (values in a Float32Array, which can hold NaN) unless
\* the record is given another one
NumericalProperty(id, bounds, values) ==
  [id |-> id, type |-> "number", dataType |-> "float32", bounds |-> bounds,
   values |-> values, tags |-> <<>>, tagDescriptions |-> <<>>]

InlineMap(ids, properties) == [ids |-> ids, properties |-> properties]

\* properties.find(p => p.type === type): its position, or 0
findType(props, type) ==
  LET hits == {i \in 1..Len(props) : props[i].type = type}
  IN IF hits = {} THEN 0 ELSE CHOOSE i \in hits : \A j \in hits : i <= j

\* new PreprocessedSegmentPropertyMap(new SegmentPropertyMap({inlineProperties}))
Preprocess(inlineProperties) ==
  LET props == inlineProperties.properties
      ti == findType(props, "tags")
      li == findType(props, "label")
  IN [ defined |-> TRUE, inline |-> TRUE, ids |-> inlineProperties.ids,
       properties |-> props,
       hasTags |-> ti # 0, tagsIndex |-> ti,
       tagNames |-> IF ti = 0 THEN <<>> ELSE props[ti].tags,
       labels |-> li # 0, labelsIndex |-> li ]

\* a property map without inline properties
PreprocessNoInline ==
  [ defined |-> TRUE, inline |-> FALSE, ids |-> <<>>, properties |-> <<>>,
    hasTags |-> FALSE, tagsIndex |-> 0, tagNames |-> <<>>,
    labels |-> FALSE, labelsIndex |-> 0 ]

\* db === undefined: every db?. access is undefined
DbUndefined == [PreprocessNoInline EXCEPT !.defined = FALSE]

----------------------------------------------------------------------------
(* Strings: order, number formatting, regular expressions *)

\* the position of a character among the characters used, which are in the
\* order of their character codes
charCode(c) ==
  LET CharTable ==
        <<" ", "#", "(", ")", ",", "-", ".", "/", "0", "1", "2", "3", "4", "5", "6",
          "7", "8", "9", ":", "<", "=", ">", "?", "B", "N", "\\", "_", "a", "b", "c",
          "d", "e", "i", "l", "m", "n", "q", "s", "x", "|">>
  IN CHOOSE i \in 1..Len(CharTable) : CharTable[i] = c

\* a < b ? -1 : a > b ? 1 : 0 on the code units of a tags value (codes) or of
\* a string of characters
defaultStringCompare(type, a, b) ==
  LET ua == IF type = "tags" THEN a ELSE [i \in 1..Len(a) |-> charCode(a[i])]
      ub == IF type = "tags" THEN b ELSE [i \in 1..Len(b) |-> charCode(b[i])]
      diff == {i \in 1..Len(ua) : i > Len(ub) \/ ua[i] # ub[i]}
      k == IF diff = {} THEN 0 ELSE CHOOSE i \in diff : \A j \in diff : i <= j
  IN IF k = 0 THEN (IF Len(ua) = Len(ub) THEN 0 ELSE -1)
     ELSE IF k > Len(ub) THEN 1
     ELSE IF ua[k] < ub[k] THEN -1 ELSE 1

\* Number.prototype.toString of an integer
RECURSIVE natToString(_)
natToString(n) ==
  IF n < 10 THEN <<DigitChars[n + 1]>>
  ELSE natToString(n \div 10) \o <<DigitChars[(n % 10) + 1]>>

numberToString(n) == IF n < 0 THEN <<"-">> \o natToString(0 - n) ELSE natToString(n)

\* string.match(new RegExp(pattern)) !== null for a pattern of literal
\* characters: the pattern occurs in the string
regexpMatch(pattern, s) ==
  \E i \in 0..(Len(s) - Len(pattern)) : SubSeq(s, i + 1, i + Len(pattern)) = pattern

\* RegExp.prototype.source: "/" is escaped unless it already is, and the empty
\* pattern reads (?:)
RECURSIVE escapeRegExpPattern(_)
escapeRegExpPattern(p) ==
  IF p = <<>> THEN <<>>
  ELSE IF p[1] = "\\" /\ Len(p) >= 2
  THEN <<p[1], p[2]>> \o escapeRegExpPattern(SubSeq(p, 3, Len(p)))
  ELSE IF p[1] = "/" THEN <<"\\", "/">> \o escapeRegExpPattern(Tail(p))
  ELSE <<p[1]>> \o escapeRegExpPattern(Tail(p))

\* RegExp.prototype.toString, which a template literal applies
regExpToString(pattern) ==
  LET source == IF pattern = <<>> THEN <<"(", "?", ":", ")">>
                ELSE escapeRegExpPattern(pattern)
  IN <<"/">> \o source \o <<"/">>

----------------------------------------------------------------------------
(* executeSegmentQuery: the filters.  Row indices are 0-based as in the     *)
(* code: row index i is position i + 1 of a column.                         *)

allIndices(totalIds) == [i \in 1..totalIds |-> i - 1]

\* showTags after filterByTagDescriptions(regexp)
filterByTagDescriptions(d, regexp) ==
  LET tp == d.properties[d.tagsIndex]
  IN [i \in 1..Len(tp.tagDescriptions) |->
        IF regexpMatch(regexp, tp.tagDescriptions[i]) \/ regexpMatch(regexp, tp.tags[i])
        THEN 1 ELSE 0]

\* "Filter by label": the rows kept, showTags, and whether the fallback to the
\* tags ran; reading db.tags.tagDescriptions of a database without a tags
\* property throws a TypeError
labelFilter(d, q) ==
  LET all == allIndices(Len(d.ids))
      shown == [i \in 1..Len(d.tagNames) |-> 1]
      values == d.properties[d.labelsIndex].values
      byRegexp == IF d.labels /\ q.regexp # <<>>
                  THEN SelectSeq(all, LAMBDA ix : regexpMatch(q.regexp[1], values[ix + 1]))
                  ELSE all
      byPrefix == IF d.labels /\ q.prefix # <<>>
                  THEN SelectSeq(byRegexp, LAMBDA ix : startsWith(values[ix + 1], q.prefix[1]))
                  ELSE byRegexp
      fallback == \/ Len(byPrefix) = 0 /\ q.regexp # <<>>
                  \/ ~d.labels /\ q.regexp # <<>>
  IN IF ~fallback
     THEN [thrown |-> "none", indices |-> byPrefix, showTags |-> shown, fallback |-> FALSE]
     ELSE IF ~d.hasTags
     THEN [thrown |-> "TypeError", indices |-> <<>>, showTags |-> shown, fallback |-> TRUE]
     ELSE [thrown |-> "none", indices |-> all,
           showTags |-> filterByTagDescriptions(d, q.regexp[1]), fallback |-> TRUE]

HexChars == <<"0", "1", "2", "3", "4", "5", "6", "7", "8", "9",
              "a", "b", "c", "d", "e", "f">>

RECURSIVE toHex(_)
toHex(n) ==
  IF n < 16 THEN <<HexChars[n + 1]>> ELSE toHex(n \div 16) \o <<HexChars[(n % 16) + 1]>>

regexpEscapeCharCode(code) ==
  LET padStart(s) == [i \in 1..(4 - Len(s)) |-> "0"] \o s
  IN <<"\\", "u">> \o padStart(toHex(code))

\* the code unit an escape \uXXXX of a pattern denotes
RECURSIVE hexValue(_, _)
hexValue(s, acc) ==
  IF s = <<>> THEN acc
  ELSE hexValue(Tail(s), 16 * acc + (CHOOSE i \in 1..16 : HexChars[i] = s[1]) - 1)

escapedCode(esc) == hexValue(SubSeq(esc, 3, 6), 0)

\* allTags.sort((a, b) => a[0] - b[0]): stable, by tag index
RECURSIVE sortAllTags(_)
sortAllTags(allTags) ==
  IF allTags = <<>> THEN <<>>
  ELSE LET n == Len(allTags)
           least == {i \in 1..n : \A j \in 1..n : allTags[i][1] <= allTags[j][1]}
           m == CHOOSE i \in least : \A j \in least : i <= j
       IN <<allTags[m]>> \o
          sortAllTags(SubSeq(allTags, 1, m - 1) \o SubSeq(allTags, m + 1, n))

\* a pattern is a sequence of elements: [lo-hi]* or one escaped character
addSkipPattern(prevTagIndex, endCode) ==
  IF endCode < prevTagIndex THEN <<>>
  ELSE << [star |-> TRUE, lo |-> regexpEscapeCharCode(prevTagIndex),
           hi |-> regexpEscapeCharCode(endCode)] >>

\* variant that starts the next skip range at the tag itself
tagPatternElement_inclusive(tagIndex, sign, prevTagIndex) ==
  [ pattern |-> addSkipPattern(prevTagIndex, tagIndex - 1) \o
                (IF sign = 1
                 THEN << [star |-> FALSE, lo |-> regexpEscapeCharCode(tagIndex),
                          hi |-> regexpEscapeCharCode(tagIndex)] >>
                 ELSE <<>>),
    prevTagIndex |-> tagIndex ]

\* one iteration of the loop over allTags
tagPatternElement(tagIndex, sign, prevTagIndex) ==
  [ pattern |-> addSkipPattern(prevTagIndex, tagIndex - 1) \o
                (IF sign = 1
                 THEN << [star |-> FALSE, lo |-> regexpEscapeCharCode(tagIndex),
                          hi |-> regexpEscapeCharCode(tagIndex)] >>
                 ELSE <<>>),
    prevTagIndex |-> tagIndex + 1 ]

RECURSIVE tagPatternLoop(_, _, _)
tagPatternLoop(allTags, k, prevTagIndex) ==
  IF k > Len(allTags) THEN addSkipPattern(prevTagIndex, 65535)
  ELSE LET e == tagPatternElement(allTags[k][1], allTags[k][2], prevTagIndex)
       IN e.pattern \o tagPatternLoop(allTags, k + 1, e.prevTagIndex)

tagPattern(tags, includeTags, excludeTags) ==
  LET allTags == [i \in 1..Len(includeTags) |-> <<indexOf(tags, includeTags[i]), 1>>] \o
                 [i \in 1..Len(excludeTags) |-> <<indexOf(tags, excludeTags[i]), 0>>]
  IN tagPatternLoop(sortAllTags(allTags), 1, 0)

\* value.match(new RegExp("^" + pattern + "$")) !== null, from element i of
\* the pattern and position j of the value
RECURSIVE patternMatches(_, _, _, _)
patternMatches(pattern, i, value, j) ==
  IF i > Len(pattern) THEN j > Len(value)
  ELSE LET e == pattern[i]
           here == /\ j <= Len(value)
                   /\ escapedCode(e.lo) <= value[j]
                   /\ value[j] <= escapedCode(e.hi)
       IN IF e.star
          THEN \/ patternMatches(pattern, i + 1, value, j)
               \/ here /\ patternMatches(pattern, i, value, j + 1)
          ELSE here /\ patternMatches(pattern, i + 1, value, j + 1)

\* "Filter by tags"
tagFilter(d, q, indices) ==
  IF Len(q.includeTags) > 0 \/ Len(q.excludeTags) > 0
  THEN LET tp == d.properties[d.tagsIndex]
           pattern == tagPattern(tp.tags, q.includeTags, q.excludeTags)
       IN SelectSeq(indices, LAMBDA ix : patternMatches(pattern, 1, tp.values[ix + 1], 1))
  ELSE indices

----------------------------------------------------------------------------
(* executeSegmentQuery: numerical constraints, tag statistics *)

\* numericalProperties.find(p => p.id === fieldId)
findNumerical(d, fieldId) ==
  LET nprops == numericalProperties(d)
  IN nprops[CHOOSE i \in 1..Len(nprops) :
              nprops[i].id = fieldId /\ \A j \in 1..(i - 1) : nprops[j].id # fieldId]

\* variant in which a NaN value passes
inBounds_nanPasses(value, bounds) ==
  isNaN(value) \/ (value.v >= bounds[1] /\ value.v <= bounds[2])

\* value >= min && value <= max, false for NaN
inBounds(value, bounds) ==
  ~isNaN(value) /\ value.v >= bounds[1] /\ value.v <= bounds[2]

RECURSIVE Pow2(_)
Pow2(n) == IF n = 0 THEN 1 ELSE 2 * Pow2(n - 1)

\* the bits of intermediateIndicesMask[i] for constraints k, k + 1, ...
RECURSIVE maskBits(_, _, _, _)
maskBits(d, constraints, ix, k) ==
  IF k > Len(constraints) THEN 0
  ELSE (IF inBounds(findNumerical(d, constraints[k].fieldId).values[ix + 1],
                    constraints[k].bounds)
        THEN Pow2(k - 1) ELSE 0)
       + maskBits(d, constraints, ix, k + 1)

\* "Filter by numerical properties"
numericalFilter(d, q, indices) ==
  LET constraints == q.numericalConstraints
      fullMask == Pow2(Len(constraints)) - 1
      mask == [i \in 1..Len(indices) |-> maskBits(d, constraints, indices[i], 1)]
      keep == {i \in 1..Len(indices) : mask[i] = fullMask}
  IN IF Len(constraints) > 0
     THEN [ hasIntermediate |-> TRUE, intermediateIndices |-> indices,
            intermediateIndicesMask |-> mask,
            indices |-> SelectSeq(indices,
                          LAMBDA ix : \E i \in keep : indices[i] = ix) ]
     ELSE [ hasIntermediate |-> FALSE, intermediateIndices |-> <<>>,
            intermediateIndicesMask |-> <<>>, indices |-> indices ]

\* tagCounts[tagIndex]: occurrences of the code in the values of the rows
tagCountOf(tp, indices, tagIndex) ==
  Cardinality(UNION { {<<i, j>> : j \in {k \in 1..Len(tp.values[indices[i] + 1]) :
                                            tp.values[indices[i] + 1][k] = tagIndex}} :
                      i \in 1..Len(indices) })

TagCount(tp, indices, tagIndex) ==
  [tag |-> tp.tags[tagIndex + 1], tagIndex |-> tagIndex,
   count |-> tagCountOf(tp, indices, tagIndex), desc |-> tp.tagDescriptions[tagIndex + 1]]

\* variant that ignores showTags
tagStatistics_showAll(d, q, indices, showTags) ==
  IF ~d.hasTags THEN <<>>
  ELSE LET tp == d.properties[d.tagsIndex]
           all == [i \in 1..Len(tp.tags) |-> TagCount(tp, indices, i - 1)]
           inQuery(c) == includes(q.includeTags, c.tag) \/ includes(q.excludeTags, c.tag)
       IN SelectSeq(all, LAMBDA c : inQuery(c)) \o
          SelectSeq(all, LAMBDA c : ~inQuery(c) /\ c.count > 0)

\* "Compute tag statistics"
tagStatistics(d, q, indices, showTags) ==
  IF ~d.hasTags THEN <<>>
  ELSE LET tp == d.properties[d.tagsIndex]
           all == [i \in 1..Len(tp.tags) |-> TagCount(tp, indices, i - 1)]
           shown == SelectSeq(all, LAMBDA c : showTags[c.tagIndex + 1] # 0)
           inQuery(c) == includes(q.includeTags, c.tag) \/ includes(q.excludeTags, c.tag)
       IN SelectSeq(shown, LAMBDA c : inQuery(c)) \o
          SelectSeq(shown, LAMBDA c : ~inQuery(c) /\ c.count > 0)

----------------------------------------------------------------------------
(* executeSegmentQuery: sorting.  A sort key is the column compared (or the  *)
(* row index itself) and the order coefficient.                              *)

PropertyKey(property, orderCoeff) ==
  [byIndex |-> FALSE, property |-> property, orderCoeff |-> orderCoeff]
IndexKey(orderCoeff) ==
  [byIndex |-> TRUE, property |-> StringProperty(<<>>, "string", <<>>),
   orderCoeff |-> orderCoeff]

\* the comparator handed to sort; a NaN result counts as +0
comparator(key, a, b) ==
  IF key.byIndex THEN key.orderCoeff * (a - b)
  ELSE LET va == key.property.values[a + 1]
           vb == key.property.values[b + 1]
       IN IF key.property.type # "number"
          THEN defaultStringCompare(key.property.type, va, vb) * key.orderCoeff
          ELSE IF isNaN(va) \/ isNaN(vb) THEN 0
          ELSE (va.v - vb.v) * key.orderCoeff

\* x placed after the last element that does not compare greater
RECURSIVE insertSorted(_, _, _)
insertSorted(key, sorted, x) ==
  IF sorted = <<>> THEN <<x>>
  ELSE IF comparator(key, sorted[Len(sorted)], x) <= 0 THEN Append(sorted, x)
  ELSE Append(insertSorted(key, SubSeq(sorted, 1, Len(sorted) - 1), x),
              sorted[Len(sorted)])

RECURSIVE stableSort(_, _)
stableSort(key, seq) ==
  IF seq = <<>> THEN <<>>
  ELSE insertSorted(key, stableSort(key, SubSeq(seq, 1, Len(seq) - 1)), seq[Len(seq)])

\* indices.sort(comparator): the stable order when the comparator is a
\* consistent comparator for the elements, in the sense of ECMAScript;
\* otherwise the order is implementation-defined, any ordering of the elements
sortOutcomes(key, seq) ==
  LET n == Len(seq)
      elems == {seq[i] : i \in 1..n}
      consistent ==
        \A a, b, c \in elems :
          /\ comparator(key, a, a) = 0
          /\ comparator(key, a, b) = 0 => comparator(key, b, a) = 0
          /\ comparator(key, a, b) < 0 => comparator(key, b, a) > 0
          /\ comparator(key, a, b) = 0 /\ comparator(key, b, c) = 0
                => comparator(key, a, c) = 0
          /\ comparator(key, a, b) < 0 /\ comparator(key, b, c) < 0
                => comparator(key, a, c) < 0
          /\ comparator(key, a, b) > 0 /\ comparator(key, b, c) > 0
                => comparator(key, a, c) > 0
  IN IF consistent THEN {stableSort(key, seq)}
     ELSE { [i \in 1..n |-> seq[f[i]]] :
              f \in {g \in [1..n -> 1..n] : \A i, j \in 1..n : g[i] = g[j] => i = j} }

reverse(seq) == [i \in 1..Len(seq) |-> seq[Len(seq) + 1 - i]]

\* sortByLabel: by tags, then by label
sortByLabel(d, orderCoeff, indices) ==
  LET byTags == IF d.hasTags
                THEN sortOutcomes(PropertyKey(d.properties[d.tagsIndex], orderCoeff), indices)
                ELSE {indices}
  IN IF d.labels
     THEN UNION { sortOutcomes(PropertyKey(d.properties[d.labelsIndex], orderCoeff), r) :
                    r \in byTags }
     ELSE byTags

\* properties.find(p => p.id === fieldId)
findById(props, fieldId) ==
  props[CHOOSE i \in 1..Len(props) :
          props[i].id = fieldId /\ \A j \in 1..(i - 1) : props[j].id # fieldId]

\* one iteration of the sort loop, for sortBy[i]
sortStep(d, sortBy, i, indices) ==
  LET fieldId == sortBy[i].fieldId
      orderCoeff == IF sortBy[i].order = "<" THEN 1 ELSE -1
  IN IF fieldId = IdField
     THEN IF i = Len(sortBy)
          THEN (IF sortBy[i].order = "<" THEN {indices} ELSE {reverse(indices)})
          ELSE sortOutcomes(IndexKey(orderCoeff), indices)
     ELSE IF fieldId = LabelField THEN sortByLabel(d, orderCoeff, indices)
     ELSE sortOutcomes(PropertyKey(findById(d.properties, fieldId), orderCoeff), indices)

\* "Sort": the keys are applied last to first, i = sortBy.length, ..., 1
RECURSIVE sortLoop(_, _, _, _)
sortLoop(d, sortBy, i, indices) ==
  IF i = 0 THEN {indices}
  ELSE UNION { sortLoop(d, sortBy, i - 1, r) : r \in sortStep(d, sortBy, i, indices) }

----------------------------------------------------------------------------
(* executeSegmentQuery *)

\* a QueryResult; thrown, fallback, showTags, afterLabel and afterTags record
\* how the call went and are not fields of the object returned
NoQueryResult ==
  [ thrown |-> "none", shape |-> "none", indices |-> <<>>,
    hasIntermediate |-> FALSE, intermediateIndices |-> <<>>,
    intermediateIndicesMask |-> <<>>, tags |-> <<>>, count |-> 0, total |-> -1,
    explicitIds |-> <<>>, errors |-> <<>>,
    fallback |-> FALSE, showTags |-> <<>>, afterLabel |-> <<>>, afterTags |-> <<>> ]

\* the results the call can return for the parse result pr; the order of the
\* indices is the only part that can differ
executeSegmentQuery(d, pr) ==
  IF pr.kind = "errors"
  THEN {[NoQueryResult EXCEPT !.shape = "errors", !.errors = pr.errors]}
  ELSE IF pr.kind = "ids"
  THEN {[NoQueryResult EXCEPT !.shape = "ids", !.explicitIds = pr.ids,
                              !.count = Len(pr.ids)]}
  ELSE IF ~d.inline
  THEN {[NoQueryResult EXCEPT !.shape = "empty"]}
  ELSE
    LET lf == labelFilter(d, pr.query)
    IN IF lf.thrown # "none"
       THEN {[NoQueryResult EXCEPT !.shape = "thrown", !.thrown = lf.thrown]}
       ELSE
         LET q == IF lf.fallback THEN [pr.query EXCEPT !.regexp = <<>>] ELSE pr.query
             tagged == tagFilter(d, q, lf.indices)
             nf == numericalFilter(d, q, tagged)
             stats == tagStatistics(d, q, nf.indices, lf.showTags)
         IN { [ thrown |-> "none", shape |-> "rows", indices |-> sorted,
                hasIntermediate |-> nf.hasIntermediate,
                intermediateIndices |-> nf.intermediateIndices,
                intermediateIndicesMask |-> nf.intermediateIndicesMask,
                tags |-> stats, count |-> Len(sorted), total |-> Len(d.ids),
                explicitIds |-> <<>>, errors |-> <<>>,
                fallback |-> lf.fallback, showTags |-> lf.showTags,
                afterLabel |-> lf.indices, afterTags |-> tagged ] :
              sorted \in sortLoop(d, q.sortBy, Len(q.sortBy), nf.indices) }

\* the query object after the call: the fallback sets query.regexp = undefined
queryAfterExecute(d, pr) ==
  IF pr.kind = "filter" /\ d.inline
  THEN LET lf == labelFilter(d, pr.query)
       IN IF lf.thrown = "none" /\ lf.fallback
          THEN [pr EXCEPT !.query.regexp = <<>>] ELSE pr
  ELSE pr

----------------------------------------------------------------------------
(* updatePropertyHistogram *)

numBins == 256

\* variant whose upper clamp is numBins
histogramIndex_clampNumBins(value, min, max) ==
  IF max <= min THEN 1
  ELSE LET den == max - min
           scaled == (value - min) * numBins
           lower == IF scaled > 0 - den THEN scaled ELSE 0 - den
           clamped == IF lower < numBins * den THEN lower ELSE numBins * den
       IN (clamped + den) \div den

\* (Math.min(numBins - 1, Math.max(-1, (value - min) * multiplier)) + 1) >>> 0
\* for an integer value, with multiplier = numBins / (max - min) or 0; the
\* quotient is kept as the fraction clamped / den, and >>> 0 of the
\* non-negative sum is its integer part
histogramIndex(value, min, max) ==
  IF max <= min THEN 1
  ELSE LET den == max - min
           scaled == (value - min) * numBins
           lower == IF scaled > 0 - den THEN scaled ELSE 0 - den
           clamped == IF lower < (numBins - 1) * den THEN lower ELSE (numBins - 1) * den
       IN (clamped + den) \div den

\* variant that counts the final result rows whether or not the property is
\* constrained
histogramRows_finalRows(res, q, property) == res.indices

\* the rows whose values the histogram counts
histogramRows(res, q, property) ==
  LET constraintIndex == findField(q.numericalConstraints, property.id) - 1
      n == Len(q.numericalConstraints)
      required(i) == \A k \in 0..(n - 1) :
                        k # constraintIndex => (res.intermediateIndicesMask[i] \div Pow2(k)) % 2 = 1
  IN IF constraintIndex = -1 THEN res.indices
     ELSE LET keep == {i \in 1..Len(res.intermediateIndices) : required(i)}
          IN SelectSeq(res.intermediateIndices,
                       LAMBDA ix : \E i \in keep : res.intermediateIndices[i] = ix)

updatePropertyHistogram(res, q, property, bounds) ==
  LET rows == histogramRows(res, q, property)
      \* the bucket each row is counted in, -1 for a NaN value
      bucket == [i \in 1..Len(rows) |->
                   LET value == property.values[rows[i] + 1]
                   IN IF isNaN(value) THEN -1
                      ELSE histogramIndex(value.v, bounds[1], bounds[2])]
  IN [ propertyId |-> property.id, window |-> bounds,
       histogram |-> [b \in 0..(numBins + 1) |->
                        Cardinality({i \in 1..Len(rows) : bucket[i] = b})] ]

----------------------------------------------------------------------------
(* unparseSegmentQuery *)

\* if (queryString.length > 0) queryString += " "; queryString += word
addWord(qs, word) == IF Len(qs) > 0 THEN qs \o <<" ">> \o word ELSE word

RECURSIVE addWords(_, _)
addWords(qs, words) ==
  IF words = <<>> THEN qs ELSE addWords(addWord(qs, words[1]), Tail(words))

\* ids.map((x) => x.toString()).join(", ")
RECURSIVE joinIds(_)
joinIds(ids) ==
  IF ids = <<>> THEN <<>>
  ELSE IF Len(ids) = 1 THEN ids[1]
  ELSE ids[1] \o <<",", " ">> \o joinIds(Tail(ids))

dataTypeIntervalEqual(a, b) == a[1] = b[1] /\ a[2] = b[2]

\* the words written for one numerical constraint, in the >= and <= form:
\* the form of every integer data type, and of float32 when the text of the
\* bound is not longer than that of the value next to it
constraintWords(d, constraint) ==
  LET property == findNumerical(d, constraint.fieldId)
      min == constraint.bounds[1]
      max == constraint.bounds[2]
  IN IF dataTypeIntervalEqual(property.bounds, constraint.bounds) THEN <<>>
     ELSE IF dataTypeCompare(min, max) = 0
     THEN << constraint.fieldId \o <<"=">> \o numberToString(min) >>
     ELSE (IF dataTypeCompare(min, property.bounds[1]) > 0
           THEN << constraint.fieldId \o <<">", "=">> \o numberToString(min) >>
           ELSE <<>>) \o
          (IF dataTypeCompare(max, property.bounds[2]) < 0
           THEN << constraint.fieldId \o <<"<", "=">> \o numberToString(max) >>
           ELSE <<>>)

RECURSIVE allConstraintWords(_, _)
allConstraintWords(d, constraints) ==
  IF constraints = <<>> THEN <<>>
  ELSE constraintWords(d, constraints[1]) \o allConstraintWords(d, Tail(constraints))

\* the prefix, or "/" followed by the regular expression converted to a string
unparseHead(q) ==
  IF q.prefix # <<>> THEN q.prefix[1]
  ELSE IF q.regexp # <<>> THEN <<"/">> \o regExpToString(q.regexp[1])
  ELSE <<>>

unparseSegmentQuery(d, pr) ==
  IF pr.kind = "ids" THEN joinIds(pr.ids)
  ELSE
    LET q == pr.query
        sortBy == IF /\ Len(q.sortBy) = 1
                     /\ q.sortBy[1].order = "<"
                     /\ q.sortBy[1].fieldId = getDefaultSortField(d)
                  THEN <<>> ELSE q.sortBy
    IN addWords(unparseHead(q),
         [i \in 1..Len(q.includeTags) |-> <<"#">> \o q.includeTags[i]] \o
         [i \in 1..Len(q.excludeTags) |-> <<"-", "#">> \o q.excludeTags[i]] \o
         allConstraintWords(d, q.numericalConstraints) \o
         [i \in 1..Len(sortBy) |-> <<sortBy[i].order>> \o sortBy[i].fieldId] \o
         [i \in 1..Len(q.includeColumns) |-> <<"|">> \o q.includeColumns[i]])

----------------------------------------------------------------------------
(* The segment index, the histogram list and the brush tool at rest *)

SegIdle ==
  /\ sdb = <<>>
  /\ shash = <<>>
  /\ scall = <<>>
  /\ scalls = 0

CacheIdle ==
  /\ hdb = <<>>
  /\ hres = <<>>
  /\ hlist = <<>>
  /\ hbounds = <<>>
  /\ hlog = <<>>

\* a BrushTool as constructed, no event handled yet
ToolInit ==
  /\ brushRadius = 1
  /\ brushValue = -1
  /\ dragging = FALSE
  /\ dispatched = [event |-> "none", signals |-> <<>>]

LaterIdle == SegIdle /\ CacheIdle /\ ToolInit

----------------------------------------------------------------------------
(* Databases and query strings the query engine is run on *)

TagNames == << <<"a">>, <<"B">>, <<"c">> >>
TagDescriptions == << <<"x">>, <<>>, <<"b", "x">> >>

\* labels, tags, a numerical property N with a NaN value, a string property
XFull ==
  Preprocess(InlineMap(<<1, 2, 3, 4>>,
    << StringProperty(<<"l">>, "label", << <<"a", "b">>, <<"b">>, <<>>, <<"a", "b">> >>),
       TagsProperty(<<"t">>, TagNames, TagDescriptions, << <<0, 2>>, <<1>>, <<>>, <<0, 1, 2>> >>),
       NumericalProperty(<<"N">>, <<0, 10>>, << Number(10), NaN, Number(0), Number(10) >>),
       StringProperty(<<"s">>, "string", << <<"b">>, <<"a">>, <<"b">>, <<"a">> >>) >>))

\* no label property; one row for every set of tags
XTags ==
  Preprocess(InlineMap(<<1, 2, 3, 4, 5, 6, 7, 8>>,
    << TagsProperty(<<"t">>, TagNames, TagDescriptions,
         << <<>>, <<0>>, <<1>>, <<2>>, <<0, 1>>, <<0, 2>>, <<1, 2>>, <<0, 1, 2>> >>),
       NumericalProperty(<<"N">>, <<0, 10>>,
         << Number(0), Number(1), Number(2), Number(3), Number(8), Number(10),
            Number(10), Number(4) >>),
       StringProperty(<<"s">>, "string",
         << <<"b">>, <<"a">>, <<"b">>, <<"a">>, <<>>, <<"a">>, <<"b">>, <<"a">> >>) >>))

\* a label property and no tags property
XLabelsOnly ==
  Preprocess(InlineMap(<<1, 2, 3>>,
    << StringProperty(<<"l">>, "label", << <<"a", "b">>, <<"b">>, <<"a">> >>),
       NumericalProperty(<<"N">>, <<0, 10>>, << Number(0), Number(8), Number(10) >>),
       StringProperty(<<"s">>, "string", << <<"b">>, <<"a">>, <<"b">> >>) >>))

\* labels and tags, no rows
XZeroRows ==
  Preprocess(InlineMap(<<>>,
    << StringProperty(<<"l">>, "label", <<>>),
       TagsProperty(<<"t">>, TagNames, TagDescriptions, <<>>),
       NumericalProperty(<<"N">>, <<0, 10>>, <<>>),
       StringProperty(<<"s">>, "string", <<>>) >>))

\* neither labels nor tags
XBare ==
  Preprocess(InlineMap(<<1, 2>>,
    << NumericalProperty(<<"N">>, <<0, 10>>, << Number(1), Number(10) >>),
       StringProperty(<<"s">>, "string", << <<"b">>, <<"a">> >>) >>))

\* tags and two numerical properties, each with a NaN value
XTwo ==
  Preprocess(InlineMap(<<1, 2, 3, 4>>,
    << TagsProperty(<<"t">>, TagNames, TagDescriptions, << <<0>>, <<>>, <<0>>, <<0, 1>> >>),
       NumericalProperty(<<"N">>, <<0, 10>>, << Number(10), NaN, Number(0), Number(4) >>),
       NumericalProperty(<<"q">>, <<0, 10>>, << Number(3), Number(0), NaN, Number(5) >>) >>))

XDatabases ==
  {XFull, XTags, XLabelsOnly, XZeroRows, XBare, XTwo, PreprocessNoInline, DbUndefined}

XTagWords ==
  { <<"#", "a">>, <<"-", "#", "a">>, <<"#", "B">>, <<"-", "#", "B">>,
    <<"#", "c">>, <<"-", "#", "c">> }

XLabelWords ==
  { <<"/", "a">>, <<"/", "x">>, <<"/", "q">>, <<"/", "B">>, <<"b">>,
    <<"#", "B">>, <<"-", "#", "a">>, <<"N", ">", "=", "2">> }

XSortWords ==
  { <<"<", "N">>, <<">", "N">>, <<"<", "i", "d">>, <<">", "i", "d">>,
    <<"<", "l", "a", "b", "e", "l">>, <<">", "l", "a", "b", "e", "l">>,
    <<"<", "s">>, <<">", "s">>, <<"N", "<", "=", "8">>, <<"q", ">", "=", "1">> }

\* words whose text unparseSegmentQuery rewrites or leaves out
XTextWords ==
  { <<"5">>, <<"/">>, <<"|", "N">>, <<"|", "i", "d">>, <<"N", "=", "3">>,
    <<"N", ">", "1">>, <<"<", "l", "a", "b", "e", "l">> }

XHistogramWords ==
  { <<"N", ">", "=", "2">>, <<"N", "<", "=", "8">>, <<"#", "a">>, <<">", "N">>,
    <<"/", "x">>, <<"q", ">", "=", "1">> }

MaxTagWords == 3
MaxQueryWords == 2

\* the windows a histogram is asked for
HistogramWindows == { <<0, 10>>, <<0, 8>>, <<2, 10>>, <<2, 514>>, <<5, 5>> }

NoHistogram == [propertyId |-> <<>>, window |-> <<0, 0>>, histogram |-> <<>>]
NoText == [text |-> <<>>, reparsed |-> NoResult, again |-> <<>>, done |-> FALSE]

ExecInit ==
  /\ xdb \in XDatabases
  /\ \/ \E k \in 0..MaxTagWords : \E ws \in [1..k -> XTagWords] : xqs = joinWords(ws)
     \/ \E fam \in {XLabelWords, XSortWords, XTextWords} :
          \E k \in 1..MaxQueryWords : \E ws \in [1..k -> fam] : xqs = joinWords(ws)
  /\ xquery = NoResult
  /\ xres = NoQueryResult
  /\ xhist = NoHistogram
  /\ xtext = NoText
  /\ xpc = "parse"

HistogramInit ==
  /\ xdb \in {XFull, XTags, XBare, XTwo}
  /\ \E k \in 0..MaxQueryWords : \E ws \in [1..k -> XHistogramWords] : xqs = joinWords(ws)
  /\ xquery = NoResult
  /\ xres = NoQueryResult
  /\ xhist = NoHistogram
  /\ xtext = NoText
  /\ xpc = "parse"

ExecIdle ==
  /\ xdb = DbUndefined
  /\ xqs = <<>>
  /\ xquery = NoResult
  /\ xres = NoQueryResult
  /\ xhist = NoHistogram
  /\ xtext = NoText
  /\ xpc = "parse"

MapIdle ==
  /\ mmaps = <<>>
  /\ mout = <<>>
  /\ mpc = "call"

XParse ==
  /\ xpc = "parse"
  /\ xquery' = parseSegmentQuery(xdb, xqs)
  /\ xpc' = "parsed"
  /\ UNCHANGED <<xdb, xqs, xres, xhist, xtext>>
  /\ UNCHANGED <<brushVars, keyVars, parseVars, mapVars, laterVars>>

XExecute ==
  /\ xpc = "parsed"
  /\ xres' \in executeSegmentQuery(xdb, xquery)
  /\ xquery' = queryAfterExecute(xdb, xquery)
  /\ xpc' = "executed"
  /\ UNCHANGED <<xdb, xqs, xhist, xtext>>
  /\ UNCHANGED <<brushVars, keyVars, parseVars, mapVars, laterVars>>

\* unparse, parse the text, unparse again
XUnparse ==
  /\ xpc = "parsed"
  /\ xquery.kind # "errors"
  /\ LET text == unparseSegmentQuery(xdb, xquery)
         reparsed == parseSegmentQuery(xdb, text)
     IN xtext' = [ text |-> text, reparsed |-> reparsed, done |-> TRUE,
                   again |-> IF reparsed.kind = "errors" THEN <<>>
                             ELSE unparseSegmentQuery(xdb, reparsed) ]
  /\ xpc' = "unparsed"
  /\ UNCHANGED <<xdb, xqs, xquery, xres, xhist>>
  /\ UNCHANGED <<brushVars, keyVars, parseVars, mapVars, laterVars>>

\* updatePropertyHistogram for a numerical property and a window
XHistogram ==
  /\ xpc = "executed"
  /\ xres.shape = "rows"
  /\ \E i \in 1..Len(numericalProperties(xdb)), w \in HistogramWindows :
       xhist' = updatePropertyHistogram(xres, xquery.query, numericalProperties(xdb)[i], w)
  /\ UNCHANGED <<xdb, xqs, xquery, xres, xtext, xpc>>
  /\ UNCHANGED <<brushVars, keyVars, parseVars, mapVars, laterVars>>

InitExec == BrushInit /\ KeyInit /\ ParseIdle /\ ExecInit /\ MapIdle /\ LaterIdle
NextExec == XParse \/ XExecute \/ XUnparse
SpecExec == InitExec /\ [][NextExec]_vars

InitHistogram == BrushInit /\ KeyInit /\ ParseIdle /\ HistogramInit /\ MapIdle /\ LaterIdle
NextHistogram == XParse \/ XExecute \/ XHistogram
SpecHistogram == InitHistogram /\ [][NextHistogram]_vars


-----------------------------------------------------------------------------
(* Property maps: normalization and merge *)

\* new SegmentPropertyMap({inlineProperties}), and the absent map
SegmentPropertyMap(hasInline, inlineProperties) ==
  [defined |-> TRUE, hasInline |-> hasInline, inlineProperties |-> inlineProperties]
NoInline == InlineMap(<<>>, <<>>)
NoMap == [defined |-> FALSE, hasInline |-> FALSE, inlineProperties |-> NoInline]

\* the comparator of two ids
bigintCompare(a, b) == IF a < b THEN -1 ELSE IF a > b THEN 1 ELSE 0

\* a store into a Float32Array: Math.fround, the nearest value with a 24-bit
\* significand, ties to even; for integers of magnitude below 2^30
fround(value) ==
  IF isNaN(value) THEN NaN
  ELSE LET n == IF value.v < 0 THEN 0 - value.v ELSE value.v
           ks == {k \in 0..6 : n < Pow2(24 + k)}
           u == Pow2(CHOOSE k \in ks : \A j \in ks : k <= j)
           q == n \div u
           r == n % u
           m == IF 2 * r < u THEN q * u
                ELSE IF 2 * r > u THEN (q + 1) * u
                ELSE IF q % 2 = 0 THEN q * u ELSE (q + 1) * u
       IN Number(IF value.v < 0 THEN 0 - m ELSE m)

isIdArraySorted(ids) ==
  \A i \in 1..(Len(ids) - 1) : ~(ids[i + 1] <= ids[1])

\* permutation.sort((a, b) => bigintCompare(ids[a], ids[b])): x placed after
\* the last index whose id is not greater
RECURSIVE insertById(_, _, _)
insertById(ids, sorted, x) ==
  IF sorted = <<>> THEN <<x>>
  ELSE IF bigintCompare(ids[sorted[Len(sorted)] + 1], ids[x + 1]) <= 0 THEN Append(sorted, x)
  ELSE Append(insertById(ids, SubSeq(sorted, 1, Len(sorted) - 1), x), sorted[Len(sorted)])

RECURSIVE sortPermutation(_, _)
sortPermutation(ids, permutation) ==
  IF permutation = <<>> THEN <<>>
  ELSE insertById(ids, sortPermutation(ids, SubSeq(permutation, 1, Len(permutation) - 1)),
                  permutation[Len(permutation)])

normalizeInlineSegmentPropertyMap(inlineProperties) ==
  LET ids == inlineProperties.ids
      length == Len(ids)
      permutation == sortPermutation(ids, [i \in 1..length |-> i - 1])
      newIds == [newIndex \in 1..length |-> ids[permutation[newIndex] + 1]]
      newValues(values) == [i \in 1..length |-> values[permutation[i] + 1]]
  IN IF isIdArraySorted(ids) THEN inlineProperties
     ELSE InlineMap(newIds,
                    [k \in 1..Len(inlineProperties.properties) |->
                       [inlineProperties.properties[k]
                          EXCEPT !.values = newValues(@)]])

\* mergeSequences(aCount, bCount, compare, aCallback, bCallback, abCallback)
\* with the callbacks of mergeInlinePropertyMaps: st holds aToMerged,
\* bToMerged and numUnique; a and b are the positions reached
RECURSIVE mergeSequences(_, _, _, _, _)
mergeSequences(aIds, bIds, a, b, st) ==
  LET aCallback == [st EXCEPT !.aToMerged = Append(@, st.numUnique),
                              !.numUnique = @ + 1]
      bCallback == [st EXCEPT !.bToMerged = Append(@, st.numUnique),
                              !.numUnique = @ + 1]
      abCallback == [st EXCEPT !.aToMerged = Append(@, st.numUnique),
                               !.bToMerged = Append(@, st.numUnique),
                               !.numUnique = @ + 1]
  IN IF a = Len(aIds) /\ b = Len(bIds) THEN st
     ELSE IF b = Len(bIds) THEN mergeSequences(aIds, bIds, a + 1, b, aCallback)
     ELSE IF a = Len(aIds) THEN mergeSequences(aIds, bIds, a, b + 1, bCallback)
     ELSE LET x == bigintCompare(aIds[a + 1], bIds[b + 1])
          IN IF x < 0 THEN mergeSequences(aIds, bIds, a + 1, b, aCallback)
             ELSE IF x > 0 THEN mergeSequences(aIds, bIds, a, b + 1, bCallback)
             ELSE mergeSequences(aIds, bIds, a + 1, b + 1, abCallback)

\* output[toMerged[i]] = input[i] for every i, later writes over earlier ones
remapArray(input, output, toMerged) ==
  [j \in 1..Len(output) |->
     LET from == {i \in 1..Len(toMerged) : toMerged[i] = j - 1}
     IN IF from = {} THEN output[j]
        ELSE input[CHOOSE i \in from : \A k \in from : k <= i]]

remapStringProperty(property, numMerged, toMerged) ==
  [property EXCEPT !.values = remapArray(@, [j \in 1..numMerged |-> <<>>], toMerged)]

\* the values are stored into a Float32Array
remapNumericalProperty(property, numMerged, toMerged) ==
  [property EXCEPT !.values =
     remapArray([i \in 1..Len(@) |-> fround(@[i])], [j \in 1..numMerged |-> NaN], toMerged)]

remapProperty(property, numMerged, toMerged) ==
  IF property.type \in {"label", "description", "string", "tags"}
  THEN remapStringProperty(property, numMerged, toMerged)
  ELSE remapNumericalProperty(property, numMerged, toMerged)

\* both arguments defined
mergeInlinePropertyMaps(a, b) ==
  LET aCount == Len(a.ids)
      bCount == Len(b.ids)
      st == mergeSequences(a.ids, b.ids, 0, 0,
                           [aToMerged |-> <<>>, bToMerged |-> <<>>, numUnique |-> 0])
      numUnique == st.numUnique
      ids == IF numUnique = aCount THEN a.ids
             ELSE IF numUnique = bCount THEN b.ids
             ELSE remapArray(b.ids,
                             remapArray(a.ids, [j \in 1..numUnique |-> 0], st.aToMerged),
                             st.bToMerged)
      aProperties == IF numUnique = aCount THEN a.properties
                     ELSE [k \in 1..Len(a.properties) |->
                             remapProperty(a.properties[k], numUnique, st.aToMerged)]
      bProperties == IF numUnique = bCount THEN b.properties
                     ELSE [k \in 1..Len(b.properties) |->
                             remapProperty(b.properties[k], numUnique, st.bToMerged)]
  IN InlineMap(ids, aProperties \o bProperties)

mergePropertyMaps(a, b) ==
  IF ~a.hasInline THEN SegmentPropertyMap(b.hasInline, b.inlineProperties)
  ELSE IF ~b.hasInline THEN SegmentPropertyMap(TRUE, a.inlineProperties)
  ELSE SegmentPropertyMap(TRUE, mergeInlinePropertyMaps(a.inlineProperties, b.inlineProperties))

\* one pass of the reduction: the maps merged two by two, an odd last one kept
RECURSIVE mergePairs(_, _)
mergePairs(maps, i) ==
  IF i >= Len(maps) THEN <<>>
  ELSE IF i + 1 = Len(maps) THEN <<maps[i + 1]>>
  ELSE <<mergePropertyMaps(maps[i + 1], maps[i + 2])>> \o mergePairs(maps, i + 2)

RECURSIVE mergeSegmentPropertyMaps(_)
mergeSegmentPropertyMaps(maps) ==
  IF Len(maps) = 0 THEN NoMap
  ELSE IF Len(maps) = 1 THEN maps[1]
  ELSE mergeSegmentPropertyMaps(mergePairs(maps, 0))

-----------------------------------------------------------------------------
(* The property-map specification *)

MaxMaps == 2
MapIds == {1, 2, 3}

\* the columns of a map of kind "A" (a label and a float32 property) or "B"
\* (tags and a uint32 property), for the ids given; a row's values depend on
\* its id
ALabel == [i \in MapIds |-> IF i = 1 THEN <<"a">> ELSE IF i = 2 THEN <<>> ELSE <<"a", "b">>]
ANumber == [i \in MapIds |-> IF i = 1 THEN Number(5) ELSE IF i = 2 THEN NaN
                             ELSE Number(7)]
BTags == [i \in MapIds |-> IF i = 1 THEN <<0>> ELSE IF i = 2 THEN <<0, 1>> ELSE <<>>]
BNumber == [i \in MapIds |-> IF i = 1 THEN Number(Pow2(24) + 3) ELSE IF i = 2 THEN Number(0)
                             ELSE Number(7)]

MapOfKind(kind, ids) ==
  IF kind = "A"
  THEN InlineMap(ids, << StringProperty(<<"l">>, "label", [i \in 1..Len(ids) |-> ALabel[ids[i]]]),
                         NumericalProperty(<<"N">>, <<0, Pow2(25)>>,
                                           [i \in 1..Len(ids) |-> ANumber[ids[i]]]) >>)
  ELSE InlineMap(ids, << TagsProperty(<<"t">>, <<<<"a">>, <<"B">>>>, << <<>>, <<>> >>,
                                      [i \in 1..Len(ids) |-> BTags[ids[i]]]),
                         [NumericalProperty(<<"M">>, <<0, Pow2(25)>>,
                                            [i \in 1..Len(ids) |-> BNumber[ids[i]]])
                            EXCEPT !.dataType = "uint32"] >>)

\* the id arrays without a repeated id, in any order, and the increasing ones
IdArrays ==
  {s \in UNION {[1..n -> MapIds] : n \in 0..Cardinality(MapIds)} :
     \A i, j \in 1..Len(s) : s[i] = s[j] => i = j}
SortedIdArrays == {s \in IdArrays : \A i \in 1..(Len(s) - 1) : s[i] < s[i + 1]}

\* the maps handed to merge: ids strictly increasing, or no inline properties
MergeInputs ==
  {SegmentPropertyMap(TRUE, MapOfKind(kind, ids)) : kind \in {"A", "B"}, ids \in SortedIdArrays}
    \cup {SegmentPropertyMap(FALSE, NoInline)}

MapInit ==
  /\ mout = NoMap
  /\ \/ /\ mpc = "normalize"
        /\ mmaps \in {<<SegmentPropertyMap(TRUE, MapOfKind(kind, ids))>> :
                        kind \in {"A", "B"}, ids \in IdArrays}
     \/ /\ mpc = "merge"
        /\ mmaps \in UNION {[1..n -> MergeInputs] : n \in 0..MaxMaps}

\* normalizeInlineSegmentPropertyMap(mmaps[1].inlineProperties)
Normalize ==
  /\ mpc = "normalize"
  /\ mout' = SegmentPropertyMap(TRUE, normalizeInlineSegmentPropertyMap(mmaps[1].inlineProperties))
  /\ mpc' = "normalized"
  /\ UNCHANGED mmaps
  /\ UNCHANGED <<brushVars, keyVars, parseVars, execVars, laterVars>>

\* mergeSegmentPropertyMaps(mmaps)
Merge ==
  /\ mpc = "merge"
  /\ mout' = mergeSegmentPropertyMaps(mmaps)
  /\ mpc' = "merged"
  /\ UNCHANGED mmaps
  /\ UNCHANGED <<brushVars, keyVars, parseVars, execVars, laterVars>>

InitMap == BrushInit /\ KeyInit /\ ParseIdle /\ ExecIdle /\ MapInit /\ LaterIdle
NextMap == Normalize \/ Merge
SpecMap == InitMap /\ [][NextMap]_vars

----------------------------------------------------------------------------
(* The id hash index of PreprocessedSegmentPropertyMap, addSegment and      *)
(* updateSegmentProperty.  The table is the sequence of its slots, slot h   *)
(* at position h + 1; murmurHash3_x86_32Hash64Bits_Bigint is the function   *)
(* hash, any function from ids to hash codes.                               *)

\* what a call does: it returns a value, throws, or never leaves its loop
Returns(value) == [outcome |-> "returns", value |-> value]
Throws == [outcome |-> "throws", value |-> 0]
NeverReturns == [outcome |-> "never", value |-> 0]

RECURSIVE insertIntoLinearChainingTable(_, _, _)
insertIntoLinearChainingTable(tbl, hashCode, value) ==
  LET h == hashCode % Len(tbl)
  IN IF tbl[h + 1] = 0 THEN [tbl EXCEPT ![h + 1] = value]
     ELSE insertIntoLinearChainingTable(tbl, h + 1, value)

\* Math.log2(0) is -Infinity and 2 ** -Infinity is 0: no slots for no entries
RECURSIVE makeUint64PermutationHashMap(_, _, _, _)
makeUint64PermutationHashMap(tbl, values, hash, i) ==
  LET numEntries == Len(values)
      \* Math.ceil(Math.log2(numEntries)) + 1 for numEntries >= 1
      hashCodeBits == 1 + CHOOSE k \in 0..8 :
                            Pow2(k) >= numEntries /\ \A j \in 0..(k - 1) : Pow2(j) < numEntries
      size == IF numEntries = 0 THEN 0 ELSE Pow2(hashCodeBits)
      start == IF i = 0 THEN [h \in 1..size |-> 0] ELSE tbl
  IN IF i >= numEntries THEN start
     ELSE makeUint64PermutationHashMap(
            insertIntoLinearChainingTable(start, hash[values[i + 1]], i + 1),
            values, hash, i + 1)

\* with no slots table[hashCode] is undefined, which is neither 0 nor the
\* index of x, and the loop goes on; so does a loop that has seen every slot
RECURSIVE queryUint64PermutationHashMap(_, _, _, _, _)
queryUint64PermutationHashMap(tbl, values, x, hashCode, steps) ==
  IF Len(tbl) = 0 \/ steps >= Len(tbl) THEN NeverReturns
  ELSE LET h == hashCode % Len(tbl)
           index == tbl[h + 1]
       IN IF index = 0 THEN Returns(-1)
          ELSE IF values[index] = x THEN Returns(index - 1)
          ELSE queryUint64PermutationHashMap(tbl, values, x, h + 1, steps + 1)

\* new PreprocessedSegmentPropertyMap(new SegmentPropertyMap({inlineProperties}))
PreprocessedSegmentPropertyMap(hasInline, inlineProperties, hash) ==
  [ inline |-> hasInline,
    ids |-> inlineProperties.ids,
    properties |-> inlineProperties.properties,
    inlineIdToIndex |-> IF hasInline
                        THEN makeUint64PermutationHashMap(<<>>, inlineProperties.ids, hash, 0)
                        ELSE <<>> ]

getSegmentInlineIndex(m, id, hash) ==
  IF ~m.inline THEN Returns(-1)
  ELSE queryUint64PermutationHashMap(m.inlineIdToIndex, m.ids, id, hash[id], 0)

\* the loop over the tag names: the vocabulary grown by the names it lacks,
\* and the codes in the order of the names
RECURSIVE encodeTagNames(_, _)
encodeTagNames(property, newTags) ==
  IF newTags = <<>> THEN [property |-> property, tagValue |-> <<>>]
  ELSE LET found == indexOf(property.tags, newTags[1])
           tagIndex == IF found = -1 THEN Len(property.tags) ELSE found
           grown == IF found = -1
                    THEN [property EXCEPT !.tags = Append(@, newTags[1]),
                                          !.tagDescriptions = Append(@, <<>>)]
                    ELSE property
           rest == encodeTagNames(grown, Tail(newTags))
       IN [property |-> rest.property, tagValue |-> <<tagIndex>> \o rest.tagValue]

\* [...tagValue].sort().join(""): the same codes in ascending order
sortTagValue(tagValue) ==
  LET n == Len(tagValue)
      order == CHOOSE p \in [1..n -> 1..n] :
                 /\ \A i, j \in 1..n : i # j => p[i] # p[j]
                 /\ \A i \in 1..(n - 1) : tagValue[p[i]] <= tagValue[p[i + 1]]
  IN [i \in 1..n |-> tagValue[order[i]]]

\* a store into the typed array of the property: a Float32Array rounds, an
\* integer array holds 0 for NaN (values here are below 2^31 and not negative)
typedArrayStore(dataType, value) ==
  IF dataType = "float32" THEN fround(value)
  ELSE IF isNaN(value) THEN Number(0) ELSE value

\* the column of one property after addSegment; properties is the record of
\* the values supplied, a function on the ids of the properties it names
addSegmentColumn(property, properties) ==
  LET supplied == property.id \in DOMAIN properties
  IN IF property.type \in {"string", "label", "description"}
     THEN [property EXCEPT !.values =
             Append(@, IF supplied THEN properties[property.id] ELSE <<>>)]
     ELSE IF property.type = "tags"
     THEN LET e == encodeTagNames(property, IF supplied THEN properties[property.id] ELSE <<>>)
          IN [e.property EXCEPT !.values = Append(@, sortTagValue(e.tagValue))]
     ELSE [property EXCEPT !.values =
             Append(@, typedArrayStore(property.dataType,
                                       IF supplied THEN properties[property.id] ELSE NaN))]

\* the map after the call and what the call does
addSegment(m, id, properties, hash) ==
  IF ~m.inline THEN [map |-> m, call |-> Throws]
  ELSE LET existingIndex == getSegmentInlineIndex(m, id, hash)
       IN IF existingIndex.outcome # "returns" \/ existingIndex.value # -1
          THEN [map |-> m, call |-> existingIndex]
          ELSE LET newIds == Append(m.ids, id)
               IN [ map |-> [m EXCEPT
                       !.ids = newIds,
                       !.properties = [k \in 1..Len(m.properties) |->
                                         addSegmentColumn(m.properties[k], properties)],
                       !.inlineIdToIndex = makeUint64PermutationHashMap(<<>>, newIds, hash, 0)],
                    call |-> Returns(Len(m.ids)) ]

\* value is a string for a string property, a list of tag names for the tags
\* property and a number for a numerical one
updateSegmentProperty(m, id, propertyId, value, hash) ==
  LET index == getSegmentInlineIndex(m, id, hash)
      \* properties.find(p => p.id === propertyId): its position, or 0
      hits == {i \in 1..Len(m.properties) : m.properties[i].id = propertyId}
      k == IF hits = {} THEN 0 ELSE CHOOSE i \in hits : \A j \in hits : i <= j
      property == m.properties[k]
      e == encodeTagNames(property, value)
      updated ==
        IF property.type \in {"string", "label", "description"}
        THEN [property EXCEPT !.values[index.value + 1] = value]
        ELSE IF property.type = "tags"
        THEN [e.property EXCEPT !.values[index.value + 1] = sortTagValue(e.tagValue)]
        ELSE [property EXCEPT !.values[index.value + 1] =
                typedArrayStore(property.dataType, value)]
  IN IF index.outcome # "returns" THEN [map |-> m, call |-> index]
     ELSE IF index.value = -1 \/ ~m.inline \/ k = 0 THEN [map |-> m, call |-> Returns(FALSE)]
     ELSE [map |-> [m EXCEPT !.properties[k] = updated], call |-> Returns(TRUE)]

----------------------------------------------------------------------------
(* The segment index specification: a map is constructed, then segments are *)
(* added, properties updated and ids looked up.                             *)

MaxCalls == 2
SegIds == {1, 2, 3}
SegHashCodes == {3, 7}

SegTags == << <<"a">>, <<"B">> >>
SegTagDescriptions == << <<"x">>, <<>> >>

\* a label, the tags, a float32 and a uint32 property over rows 1..n
SegProperties(n) ==
  << StringProperty(<<"l">>, "label", [i \in 1..n |-> <<"a">>]),
     TagsProperty(<<"t">>, SegTags, SegTagDescriptions, [i \in 1..n |-> <<0>>]),
     NumericalProperty(<<"N">>, <<0, 10>>, [i \in 1..n |-> Number(i)]),
     [NumericalProperty(<<"U">>, <<0, 10>>, [i \in 1..n |-> Number(i)])
        EXCEPT !.dataType = "uint32"] >>

\* no inline properties, no ids, ids 2 and 3
SegMaps(hash) ==
  { PreprocessedSegmentPropertyMap(FALSE, NoInline, hash),
    PreprocessedSegmentPropertyMap(TRUE, InlineMap(<<>>, SegProperties(0)), hash),
    PreprocessedSegmentPropertyMap(TRUE, InlineMap(<<2, 3>>, SegProperties(2)), hash) }

\* the properties argument of addSegment: nothing, a value for every property,
\* a new tag named twice
SegAddProperties ==
  { <<>>,
    (<<"l">> :> <<"b">>) @@ (<<"t">> :> << <<"B">>, <<"a">> >>) @@
      (<<"N">> :> Number(5)) @@ (<<"U">> :> Number(6)),
    (<<"t">> :> << <<"c">>, <<"c">> >>) }

\* the propertyId and value arguments of updateSegmentProperty
SegUpdates ==
  { << <<"l">>, <<"b">> >>,
    << <<"t">>, << <<"B">>, <<"a">>, <<"B">> >> >>,
    << <<"N">>, Number(7) >>,
    << <<"U">>, NaN >>,
    << <<"z">>, <<"b">> >> }

SegCall(op, id, propertyId, args, call, before) ==
  [op |-> op, id |-> id, propertyId |-> propertyId, args |-> args,
   outcome |-> call.outcome, value |-> call.value, before |-> before]

SegInit ==
  /\ shash \in [SegIds -> SegHashCodes]
  /\ sdb \in SegMaps(shash)
  /\ scall = SegCall("new", 0, <<>>, <<>>, Returns(0), sdb)
  /\ scalls = 0

\* a call that never returns leaves no room for another one
SegReady == scalls < MaxCalls /\ scall.outcome # "never"

AddSegment ==
  /\ SegReady
  /\ \E id \in SegIds, properties \in SegAddProperties :
       LET r == addSegment(sdb, id, properties, shash)
       IN /\ sdb' = r.map
          /\ scall' = SegCall("addSegment", id, <<>>, properties, r.call, sdb)
  /\ scalls' = scalls + 1
  /\ UNCHANGED shash
  /\ UNCHANGED <<brushVars, keyVars, parseVars, execVars, mapVars, cacheVars, toolVars>>

UpdateSegmentProperty ==
  /\ SegReady
  /\ \E id \in SegIds, u \in SegUpdates :
       LET r == updateSegmentProperty(sdb, id, u[1], u[2], shash)
       IN /\ sdb' = r.map
          /\ scall' = SegCall("updateSegmentProperty", id, u[1], u[2], r.call, sdb)
  /\ scalls' = scalls + 1
  /\ UNCHANGED shash
  /\ UNCHANGED <<brushVars, keyVars, parseVars, execVars, mapVars, cacheVars, toolVars>>

GetSegmentInlineIndex ==
  /\ SegReady
  /\ \E id \in SegIds :
       scall' = SegCall("getSegmentInlineIndex", id, <<>>, <<>>,
                        getSegmentInlineIndex(sdb, id, shash), sdb)
  /\ scalls' = scalls + 1
  /\ UNCHANGED <<sdb, shash>>
  /\ UNCHANGED <<brushVars, keyVars, parseVars, execVars, mapVars, cacheVars, toolVars>>

InitSeg ==
  /\ BrushInit /\ KeyInit /\ ParseIdle /\ ExecIdle /\ MapIdle
  /\ SegInit /\ CacheIdle /\ ToolInit
NextSeg == AddSegment \/ UpdateSegmentProperty \/ GetSegmentInlineIndex
SpecSeg == InitSeg /\ [][NextSeg]_vars

----------------------------------------------------------------------------
(* updatePropertyHistograms.  A QueryResult object is known by rid, a       *)
(* number no other result object has: queryResult === queryResult compares  *)
(* the rids.                                                                *)

MaxResults == 2

HQueryStrings ==
  { <<>>, <<"1">>, <<"N", ">", "=", "2">>, <<"q", ">", "=", "1">> }

HWindows == { <<0, 10>>, <<2, 10>> }

\* no query result: queryResult is undefined
NoResultObject == [rid |-> 0, defined |-> FALSE, query |-> NoResult, res |-> NoQueryResult]

\* the bounds the caller starts with: those of the properties
defaultBounds(d) ==
  [i \in 1..Len(numericalProperties(d)) |-> numericalProperties(d)[i].bounds]

\* variant that compares the query result only
histogramUpToDate_sameResult(propertyHistograms, i, queryResult, propertyBounds) ==
  /\ i <= Len(propertyHistograms)
  /\ propertyHistograms[i].queryResult = queryResult.rid

\* the test that lets the loop go on to the next property
histogramUpToDate(propertyHistograms, i, queryResult, propertyBounds) ==
  /\ i <= Len(propertyHistograms)
  /\ propertyHistograms[i].queryResult = queryResult.rid
  /\ dataTypeIntervalEqual(propertyHistograms[i].window, propertyBounds)

\* the two lists after the call, and the properties whose histogram the call
\* has computed
updatePropertyHistograms(d, queryResult, propertyHistograms, bounds) ==
  IF ~d.defined
  THEN [propertyHistograms |-> <<>>, bounds |-> <<>>, recomputed |-> {}]
  ELSE IF ~(queryResult.defined /\ queryResult.res.shape = "rows")
  THEN [propertyHistograms |-> <<>>, bounds |-> bounds, recomputed |-> {}]
  ELSE
    LET props == numericalProperties(d)
        numProperties == Len(props)
        recomputed == {i \in 1..numProperties :
                         ~histogramUpToDate(propertyHistograms, i, queryResult, bounds[i])}
        length == IF Len(propertyHistograms) > numProperties
                  THEN Len(propertyHistograms) ELSE numProperties
        computed(i) ==
          LET h == updatePropertyHistogram(queryResult.res, queryResult.query.query,
                                           props[i], bounds[i])
          IN [queryResult |-> queryResult.rid, window |-> h.window,
              histogram |-> h.histogram]
    IN [ propertyHistograms |->
           [i \in 1..length |-> IF i \in recomputed THEN computed(i)
                                ELSE propertyHistograms[i]],
         bounds |-> bounds,
         recomputed |-> recomputed ]

CacheInit ==
  /\ hdb \in {DbUndefined, XTwo}
  /\ hres = NoResultObject
  /\ hlist = <<>>
  /\ hbounds = defaultBounds(hdb)
  /\ hlog = [op |-> "new", recomputed |-> {}]

\* the caller has a new query result
NewQueryResult ==
  /\ hres.rid < MaxResults
  /\ \E q \in HQueryStrings :
       LET pr == parseSegmentQuery(hdb, q)
       IN \E r \in executeSegmentQuery(hdb, pr) :
            hres' = [rid |-> hres.rid + 1, defined |-> TRUE, query |-> pr, res |-> r]
  /\ hlog' = [op |-> "result", recomputed |-> {}]
  /\ UNCHANGED <<hdb, hlist, hbounds>>
  /\ UNCHANGED <<brushVars, keyVars, parseVars, execVars, mapVars, segVars, toolVars>>

\* the caller has no query result any more
ClearQueryResult ==
  /\ hres.defined
  /\ hres' = [NoResultObject EXCEPT !.rid = hres.rid]
  /\ hlog' = [op |-> "result", recomputed |-> {}]
  /\ UNCHANGED <<hdb, hlist, hbounds>>
  /\ UNCHANGED <<brushVars, keyVars, parseVars, execVars, mapVars, segVars, toolVars>>

\* the caller's database goes or comes; with a database come its bounds
SetDatabase ==
  /\ hdb' \in {DbUndefined, XTwo} \ {hdb}
  /\ hbounds' = IF hdb'.defined THEN defaultBounds(hdb') ELSE hbounds
  /\ hlog' = [op |-> "database", recomputed |-> {}]
  /\ UNCHANGED <<hres, hlist>>
  /\ UNCHANGED <<brushVars, keyVars, parseVars, execVars, mapVars, segVars, toolVars>>

\* the caller moves the window of one property
SetBounds ==
  /\ \E i \in 1..Len(hbounds), w \in HWindows :
       /\ hbounds[i] # w
       /\ hbounds' = [hbounds EXCEPT ![i] = w]
  /\ hlog' = [op |-> "bounds", recomputed |-> {}]
  /\ UNCHANGED <<hdb, hres, hlist>>
  /\ UNCHANGED <<brushVars, keyVars, parseVars, execVars, mapVars, segVars, toolVars>>

UpdatePropertyHistograms ==
  /\ LET u == updatePropertyHistograms(hdb, hres, hlist, hbounds)
     IN /\ hlist' = u.propertyHistograms
        /\ hbounds' = u.bounds
        /\ hlog' = [op |-> "update", recomputed |-> u.recomputed]
  /\ UNCHANGED <<hdb, hres>>
  /\ UNCHANGED <<brushVars, keyVars, parseVars, execVars, mapVars, segVars, toolVars>>

InitCache ==
  /\ BrushInit /\ KeyInit /\ ParseIdle /\ ExecIdle /\ MapIdle
  /\ SegIdle /\ CacheInit /\ ToolInit
NextCache ==
  NewQueryResult \/ ClearQueryResult \/ SetDatabase \/ SetBounds \/ UpdatePropertyHistograms
SpecCache == InitCache /\ [][NextCache]_vars

----------------------------------------------------------------------------
(* BrushTool: setBrushRadius, setBrushValue and the paint and release       *)
(* actions of an activation.  What paint reads from the viewer is env: the  *)
(* selected layer with its mouse state, position, render layer and pose     *)
(* (ready), the bounds of the coordinate space, the main axis of the view   *)
(* normal and its sign, and the canonical voxel factors of the two in-plane *)
(* axes.                                                                    *)

ToolRadii == {-1, 0, 1, 2}
ToolValues == {-1, 0, 3}
ToolPosition == <<1, 1, 1>>
ToolBounds == [lowerBounds |-> <<0, 0, 0>>, upperBounds |-> <<3, 3, 3>>]

ToolEnvs ==
  [ready : BOOLEAN, hasBounds : BOOLEAN, mainAxis : 0..2, sign : {-1, 1},
   xFactor : {1, 2}, yFactor : {1, 2}]

\* on whole numbers: the coordinate kept within the bounds
clampAndRoundCoordinateToVoxelCenter(bounds, i, value) ==
  LET lower == bounds.lowerBounds[i + 1]
      upper == bounds.upperBounds[i + 1]
  IN IF value < lower THEN lower ELSE IF value > upper - 1 THEN upper - 1 ELSE value

\* the points of the brush circle, in the order of the two loops
brushPoints(radius, value, env) ==
  LET s == env.sign
      xAxis == IF env.mainAxis = 0 THEN <<0, s, 0>> ELSE <<s, 0, 0>>
      yAxis == IF env.mainAxis = 2 THEN <<0, s, 0>> ELSE <<0, 0, s>>
      \* Math.ceil(radius / factor)
      xRange == 0 - ((0 - radius) \div env.xFactor)
      yRange == 0 - ((0 - radius) \div env.yFactor)
      radiusSq == radius * radius
      nx == IF xRange < 0 THEN 0 ELSE 2 * xRange + 1
      ny == IF yRange < 0 THEN 0 ELSE 2 * yRange + 1
      steps == [k \in 1..(nx * ny) |->
                  <<((k - 1) \div ny) - xRange, ((k - 1) % ny) - yRange>>]
      inside == SelectSeq(steps, LAMBDA d :
                  (d[1] * env.xFactor) * (d[1] * env.xFactor)
                    + (d[2] * env.yFactor) * (d[2] * env.yFactor) <= radiusSq)
      coordinate(d, i) ==
        clampAndRoundCoordinateToVoxelCenter(ToolBounds, i,
          ToolPosition[i + 1] + xAxis[i + 1] * d[1] + yAxis[i + 1] * d[2])
  IN IF env.hasBounds
     THEN [k \in 1..Len(inside) |->
             [z |-> coordinate(inside[k], 0), y |-> coordinate(inside[k], 1),
              x |-> coordinate(inside[k], 2), value |-> value]]
     ELSE <<>>

\* variant without the test of the brush value
paint_anyValue(radius, value, env) ==
  IF ~env.ready THEN <<>>
  ELSE IF brushPoints(radius, value, env) = <<>> THEN <<>>
  ELSE << [signal |-> "brushPointsChanged", brushPoints |-> brushPoints(radius, value, env)] >>

\* the signals paint dispatches
paint(radius, value, env) ==
  IF value = -1 \/ ~env.ready THEN <<>>
  ELSE IF brushPoints(radius, value, env) = <<>> THEN <<>>
  ELSE << [signal |-> "brushPointsChanged", brushPoints |-> brushPoints(radius, value, env)] >>

SetBrushRadius ==
  /\ \E radius \in ToolRadii : brushRadius' = radius
  /\ dispatched' = [event |-> "setBrushRadius", signals |-> <<>>]
  /\ UNCHANGED <<brushValue, dragging>>
  /\ UNCHANGED <<brushVars, keyVars, parseVars, execVars, mapVars, segVars, cacheVars>>

SetBrushValue ==
  /\ \E value \in ToolValues : brushValue' = value
  /\ dispatched' = [event |-> "setBrushValue", signals |-> <<>>]
  /\ UNCHANGED <<brushRadius, dragging>>
  /\ UNCHANGED <<brushVars, keyVars, parseVars, execVars, mapVars, segVars, cacheVars>>

\* neuroglancer-brush-paint: paint once and start the relative drag
MouseDown ==
  /\ \E env \in ToolEnvs :
       dispatched' = [event |-> "mousedown", signals |-> paint(brushRadius, brushValue, env)]
  /\ dragging' = TRUE
  /\ UNCHANGED <<brushRadius, brushValue>>
  /\ UNCHANGED <<brushVars, keyVars, parseVars, execVars, mapVars, segVars, cacheVars>>

\* a mouse move of the relative drag
Drag ==
  /\ dragging
  /\ \E env \in ToolEnvs :
       dispatched' = [event |-> "drag", signals |-> paint(brushRadius, brushValue, env)]
  /\ UNCHANGED <<brushRadius, brushValue, dragging>>
  /\ UNCHANGED <<brushVars, keyVars, parseVars, execVars, mapVars, segVars, cacheVars>>

\* neuroglancer-brush-release; the mouse-up also ends the drag
MouseUp ==
  /\ dispatched' = [event |-> "mouseup",
                    signals |-> << [signal |-> "changed", brushPoints |-> <<>>] >>]
  /\ dragging' = FALSE
  /\ UNCHANGED <<brushRadius, brushValue>>
  /\ UNCHANGED <<brushVars, keyVars, parseVars, execVars, mapVars, segVars, cacheVars>>

InitTool ==
  /\ BrushInit /\ KeyInit /\ ParseIdle /\ ExecIdle /\ MapIdle
  /\ SegIdle /\ CacheIdle /\ ToolInit
NextTool == SetBrushRadius \/ SetBrushValue \/ MouseDown \/ Drag \/ MouseUp
SpecTool == InitTool /\ [][NextTool]_vars

----------------------------------------------------------------------------
(* The parser specification *)

InitParse == BrushInit /\ KeyInit /\ ParseInit /\ ExecIdle /\ MapIdle /\ LaterIdle
NextParse == ParseIds \/ ParseBegin \/ ParseToken \/ ParseFinish
SpecParse == InitParse /\ [][NextParse]_vars

----------------------------------------------------------------------------
(* Specifications *)

Init == BrushInit /\ KeyInit /\ ParseIdle /\ ExecIdle /\ MapIdle /\ LaterIdle
Next == Add \/ Delete \/ Get \/ Has \/ ClearAll
Spec == Init /\ [][Next]_vars

InitKey ==
  /\ LaterIdle
  /\ BrushInit
  /\ ParseIdle
  /\ ExecIdle
  /\ MapIdle
  /\ kin \in {Pt(z, y, x) : z \in KeySamples, y \in KeySamples, x \in KeySamples}
  /\ khost = <<>>
  /\ kfrag = <<>>

NextKey == HostKey \/ FragKeySlice \/ FragKeyGuarded
SpecKey == InitKey /\ [][NextKey]_vars

----------------------------------------------------------------------------
(* Properties of the label store *)

\* C1: the primary map and the coordinate side map always hold the same keys
C1_SameKeys == DOMAIN table = DOMAIN coordinates

C1_Witness ==
  /\ lastOp.op = "delete"
  /\ table # EmptyMap
  /\ KeyOf(lastOp.p) \notin DOMAIN coordinates

Stored(v) == IF v = 0 THEN NoRet ELSE [def |-> TRUE, val |-> v]

\* C2 as stated: while only well-formed coordinates are used, getBrushValue of
\* a point returns the value of the last add of that very point that was not
\* followed by a delete of that point or a clear
C2_LastWritePerPoint ==
  ~sawInvalid => \A p \in PValid : getBrushValue(table, p) = Stored(expect[p])

\* C2 (amended): getBrushValue of a point returns the value of the last add
\* to the point's key that was not followed by a delete of that key or a
\* clear, and is absent when there is none
C2_LastWritePerKey ==
  \A p \in Points :
    /\ getBrushValue(table, p) = Stored(expectKey[KeyOf(p)])
    /\ hasBrushPoint(table, p) = (expectKey[KeyOf(p)] # 0)

C2_Witness ==
  /\ lastOp.op = "add"
  /\ lastOp.v = 2
  /\ \E q \in PValid : KeyOf(q) = KeyOf(lastOp.p) /\ expect[q] = 1
  /\ getBrushValue(table, lastOp.p).val = 2

\* C3: a delete removes exactly the entry of the point's key from both maps,
\* keeps every other entry, changes nothing when the key is absent, and
\* leaves hasBrushPoint false
C3_DeleteFrame ==
  [][\A p \in Points :
       DeleteBrushPoint(p) =>
         LET k == KeyOf(p)
         IN /\ DOMAIN table' = (DOMAIN table) \ {k}
            /\ DOMAIN coordinates' = (DOMAIN coordinates) \ {k}
            /\ \A j \in DOMAIN table' : table'[j] = table[j]
            /\ \A j \in DOMAIN coordinates' : coordinates'[j] = coordinates[j]
            /\ (k \notin DOMAIN table => table' = table /\ coordinates' = coordinates)
            /\ ~hasBrushPoint(table', p)
            /\ lastOp'.thrown = "none"]_vars

C3_Witness ==
  /\ lastOp.op = "delete"
  /\ Cardinality(DOMAIN table) = 1
  /\ Cardinality(DOMAIN coordinates) = 1
  /\ ~hasBrushPoint(table, lastOp.p)

\* C4: a store call with a malformed coordinate is rejected with an
\* InvalidCoordinate error
C4_RejectsInvalid ==
  (lastOp.op \in {"add", "delete", "get", "has"} /\ ~ValidPoint(lastOp.p))
    => lastOp.thrown = "InvalidCoordinate"

\* C5: for well-formed coordinates the host key is h1 + h2 * 2^32 with every
\* multiplication wrapping modulo 2^32, and the key of (0,0,0) is 0
C5_KeyFormula ==
  (khost # <<>> /\ ValidPoint(kin)) =>
    LET x == Low32(kin.x.mag)
        y == Low32(kin.y.mag)
        z == Low32(kin.z.mag)
        W(u, a, b) == Low32(MulCarry(Low32(MulCarry(u, a, 1, 0)), b, 1, 0))
        h1 == Xor32(Xor32(W(x, 73, 1271), W(y, 513, 1345)), W(z, 421, 675))
        h2 == Xor32(Xor32(W(x, 127, 337), W(y, 111, 887)), W(z, 269, 325))
    IN /\ khost = <<h1[1], h1[2], h2[1], h2[2]>>
       /\ (kin = Pt(Zero, Zero, Zero) => khost = <<0, 0, 0, 0>>)

C5_Witness ==
  /\ khost # <<>>
  /\ kin = Pt(Nat32(65535, 65535), Nat32(0, 32768), Nat32(3, 0))

\* C6: at a non-negative voxel position the shader builds the key the host
\* computes for (z, y, x) = (voxelPos.x, voxelPos.y, voxelPos.z)
C6_ShaderKeyMatchesHost ==
  (kfrag # <<>> /\ NonNeg(kin.z) /\ NonNeg(kin.y) /\ NonNeg(kin.x)) =>
    /\ kfrag # Discarded
    /\ kfrag = getBrushKey(kin.z, kin.y, kin.x)
    /\ (khost # <<>> => kfrag = khost)

C6_Witness ==
  /\ kfrag # <<>>
  /\ khost # <<>>
  /\ kin = Pt(Nat32(1, 0), Nat32(3, 0), Nat32(65535, 32767))

----------------------------------------------------------------------------
(* Properties of the query parser *)

NonEmptyWords(ws) == SelectSeq(ws, LAMBDA w : w # <<>>)

\* 0-based position at which word i of the joined string begins
RECURSIVE WordBegin(_, _)
WordBegin(ws, i) == IF i = 1 THEN 0 ELSE WordBegin(ws, i - 1) + Len(ws[i - 1]) + 1

\* the maximal runs of digits of a word
DigitRuns(w) ==
  { SubSeq(w, r[1], r[2]) :
      r \in { ab \in (1..Len(w)) \X (1..Len(w)) :
                /\ ab[1] <= ab[2]
                /\ \A i \in ab[1]..ab[2] : w[i] \in Digits
                /\ (ab[1] = 1 \/ w[ab[1] - 1] \notin Digits)
                /\ (ab[2] = Len(w) \/ w[ab[2] + 1] \notin Digits) } }

IsIdList(ws) ==
  /\ \A i \in 1..Len(ws) : \A j \in 1..Len(ws[i]) : ws[i][j] \in Digits \cup {",", "\t"}
  /\ \E i \in 1..Len(ws) : \E j \in 1..Len(ws[i]) : ws[i][j] \in Digits

ExpectedIds(ws) ==
  { stripZeros(r) : r \in { x \in UNION {DigitRuns(ws[i]) : i \in 1..Len(ws)} :
                             ~bigintLess(Uint64Max, stripZeros(x)) } }

\* C7: a query made only of decimal integers, commas and white space parses
\* to the explicit-id form whose ids are the distinct values that fit in 64
\* bits, strictly ascending; larger numerals are skipped without an error
\* and no token rule is applied
C7_ExplicitIds ==
  (ppc = "done" /\ IsIdList(qwords)) =>
    /\ result.kind = "ids"
    /\ {result.ids[i] : i \in 1..Len(result.ids)} = ExpectedIds(qwords)
    /\ \A i \in 1..(Len(result.ids) - 1) : bigintLess(result.ids[i], result.ids[i + 1])
    /\ result.errors = <<>> /\ errors = <<>>
    /\ result.query = EmptyParsed /\ tokLog = <<>>

C7_Witness ==
  /\ ppc = "done"
  /\ qwords = << <<"5", ",">>, <<"3", ",", "3">>, <<"1", "0">> >>
  /\ result.ids = << <<"3">>, <<"5">>, <<"1", "0">> >>

BadTokens == {i \in 1..Len(tokLog) : tokLog[i].bad}

\* the error reported for token i of the log, when it is an erroneous one
ErrorOf(i) == errors[Cardinality({j \in 1..i : tokLog[j].bad})]

\* words that are erroneous wherever they stand
AlwaysBadWords ==
  { <<"#", "x">>, <<"/", "(">>, <<"<", "q">>, <<"n", "=", "1", "0", "0">>,
    <<"m", "=", "1">>, <<"n", "=", ".">> }

\* C8: every token is examined; the result is the parse-errors form exactly
\* when some token is erroneous; it lists one error per erroneous token, in
\* token order, with a span inside that token; it carries no parsed field
C8_AllErrorsReported ==
  (ppc = "done" /\ result.kind # "ids") =>
    LET ws == qwords
        idx == {i \in 1..Len(ws) : ws[i] # <<>>}
    IN /\ Len(tokLog) = Cardinality(idx)
       /\ \A i \in idx :
            LET k == Cardinality({j \in idx : j <= i})
            IN /\ tokLog[k].begin = WordBegin(ws, i)
               /\ tokLog[k].end = WordBegin(ws, i) + Len(ws[i])
               /\ (ws[i] \in AlwaysBadWords => tokLog[k].bad)
       /\ (result.kind = "errors") = (BadTokens # {})
       /\ result.kind \in {"errors", "filter"}
       /\ result.kind = "errors" =>
            /\ result.errors = errors
            /\ Len(result.errors) = Cardinality(BadTokens)
            /\ \A i \in BadTokens :
                 /\ 0 <= ErrorOf(i).begin
                 /\ tokLog[i].begin <= ErrorOf(i).begin
                 /\ ErrorOf(i).begin <= ErrorOf(i).end
                 /\ ErrorOf(i).end <= tokLog[i].end
                 /\ ErrorOf(i).end <= Len(queryString)
            /\ result.query = EmptyParsed
       /\ result.kind = "filter" => result.errors = <<>>

C8_Witness ==
  /\ ppc = "done"
  /\ result.kind = "errors"
  /\ Len(result.errors) = 2
  /\ Len(tokLog) = 3
  /\ tokLog[1].bad /\ ~tokLog[2].bad /\ tokLog[3].bad

\* the interval of the constraint on field f, or the declared bounds
CurrentBounds(pq, f, declared) ==
  LET ci == findField(pq.numericalConstraints, f)
  IN IF ci = 0 THEN declared ELSE pq.numericalConstraints[ci].bounds

MaxOf(a, b) == IF a > b THEN a ELSE b
MinOf(a, b) == IF a < b THEN a ELSE b

\* C9: every constraint interval lies inside the declared bounds; an accepted
\* token replaces the interval by its intersection with the token's
\* interval; a token with an empty intersection is reported for its own
\* span and leaves the interval as it was; the declared bounds never change
C9_Narrowing ==
  /\ [](\A i \in 1..Len(parsed.numericalConstraints) :
          LET b == parsed.numericalConstraints[i].bounds
          IN 0 <= b[1] /\ b[1] <= b[2] /\ b[2] <= 10)
  /\ [][ParseToken =>
          LET t == tokenStep(db, parsed, queryString, startIndex)
              m == constraintMatch(t.word)
              v == parseDataTypeValue(m.g3)
              f == <<"N">>
              declared == <<0, 10>>
              old == CurrentBounds(parsed, f, declared)
              lo == CASE m.g2 = <<"=">> -> MaxOf(old[1], v.value)
                      [] m.g2 = <<">", "=">> -> MaxOf(old[1], v.value)
                      [] m.g2 = <<">">> -> MaxOf(old[1], v.value + 1)
                      [] OTHER -> old[1]
              hi == CASE m.g2 = <<"=">> -> MinOf(old[2], v.value)
                      [] m.g2 = <<"<", "=">> -> MinOf(old[2], v.value)
                      [] m.g2 = <<"<">> -> MinOf(old[2], v.value - 1)
                      [] OTHER -> old[2]
          IN /\ db' = db
             /\ (m.ok /\ toLowerCase(m.g1) = <<"n">> /\ v.ok) =>
                  IF lo > hi
                  THEN /\ errors' = Append(errors,
                            [begin |-> startIndex, end |-> t.endIndex,
                             message |-> "Constraint would not match any values"])
                       /\ CurrentBounds(parsed', f, declared) = old
                  ELSE /\ errors' = errors
                       /\ CurrentBounds(parsed', f, declared) = <<lo, hi>>]_vars

C9_Witness ==
  /\ ppc = "done"
  /\ qwords = << <<"n", ">", "=", "2">>, <<"n", "<", "=", "8">> >>
  /\ result.kind = "filter"
  /\ result.query.numericalConstraints = <<[fieldId |-> <<"N">>, bounds |-> <<2, 8>>]>>

IsRegexpWord(w) == w # <<>> /\ w[1] = "/"
IsFreeText(w) ==
  /\ w # <<>>
  /\ w[1] \notin {"#", "<", ">", "|", "/"}
  /\ ~(Len(w) >= 2 /\ w[1] = "-" /\ w[2] = "#")
  /\ ~constraintMatch(w).ok

\* C10: prefix and regexp are never both set; a regexp token after an
\* accepted prefix fragment or regexp, and a free-text fragment after an
\* accepted regexp, are errors; without a label property and without tags
\* both kinds of token are "No label property" errors
C10_PrefixRegexpExclusive ==
  LET ws == NonEmptyWords(qwords)
  IN /\ ~(parsed.prefix # <<>> /\ parsed.regexp # <<>>)
     /\ ~(result.query.prefix # <<>> /\ result.query.regexp # <<>>)
     /\ Len(parsed.regexp) <= 1 /\ Len(result.query.regexp) <= 1
     /\ \A j \in 1..Len(tokLog) : \A i \in 1..(j - 1) :
          ( /\ ~tokLog[i].bad
            /\ \/ IsFreeText(ws[i]) /\ IsRegexpWord(ws[j])
               \/ IsRegexpWord(ws[i]) /\ IsRegexpWord(ws[j])
               \/ IsRegexpWord(ws[i]) /\ IsFreeText(ws[j]) )
          => tokLog[j].bad
     /\ \A j \in 1..Len(tokLog) :
          ( /\ ~db.labels /\ db.tagNames = <<>>
            /\ IsRegexpWord(ws[j]) \/ IsFreeText(ws[j]) )
          => tokLog[j].bad /\ ErrorOf(j).message = "No label property"
     /\ (ppc = "done" /\ BadTokens # {}) => result.kind = "errors"

C10_Witness ==
  /\ ppc = "done"
  /\ db = DbFull
  /\ qwords = << <<"a", "b">>, <<"/", "a">> >>
  /\ result.kind = "errors"
  /\ ~tokLog[1].bad /\ tokLog[2].bad
  /\ errors[1].message = "Prefix cannot be combined with regular expression"

----------------------------------------------------------------------------
(* Properties of the query engine *)

Elems(seq) == {seq[i] : i \in 1..Len(seq)}

\* the query as parseSegmentQuery returned it, before executeSegmentQuery ran
XOriginal == parseSegmentQuery(xdb, xqs)

\* executeSegmentQuery returned a result computed from the rows
XRows == xpc = "executed" /\ xres.shape = "rows"

\* the query has a regexp and the database has no label property or no label
\* matches the regexp
XFallbackCase ==
  /\ XOriginal.kind = "filter"
  /\ XOriginal.query.regexp # <<>>
  /\ \/ ~xdb.labels
     \/ \A i \in 1..Len(xdb.ids) :
          ~regexpMatch(XOriginal.query.regexp[1], xdb.properties[xdb.labelsIndex].values[i])

\* the name or the description of the tag with this code matches
TagMatches(regexp, code) ==
  LET tp == xdb.properties[xdb.tagsIndex]
  IN regexpMatch(regexp, tp.tags[code + 1]) \/ regexpMatch(regexp, tp.tagDescriptions[code + 1])

RowsWithMatchingTag(regexp) ==
  LET tp == xdb.properties[xdb.tagsIndex]
  IN {ix \in 0..(Len(xdb.ids) - 1) :
        \E j \in 1..Len(tp.values[ix + 1]) : TagMatches(regexp, tp.values[ix + 1][j])}

\* C11: when a query has a regexp and the database has no label property or
\* no label matches, the rows returned (no other filter being present) are
\* exactly the rows with at least one tag whose name or description matches
C11_FallbackFiltersRows ==
  ( /\ XRows
    /\ XFallbackCase
    /\ XOriginal.query.includeTags = <<>>
    /\ XOriginal.query.excludeTags = <<>>
    /\ XOriginal.query.numericalConstraints = <<>> )
  => Elems(xres.indices) = RowsWithMatchingTag(XOriginal.query.regexp[1])


\* the codes of a row's tags value
RowCodes(ix) == Elems(xdb.properties[xdb.tagsIndex].values[ix + 1])

\* the code of a tag: its position in the vocabulary
CodeOf(tag) == indexOf(xdb.properties[xdb.tagsIndex].tags, tag)

\* C12: a row that reached the tag filter passes it if and only if its tags
\* value holds the code of every include tag and of no exclude tag
C12_TagFilter ==
  (XRows /\ xdb.hasTags) =>
    \A ix \in Elems(xres.afterLabel) :
      (ix \in Elems(xres.afterTags)) <=>
        /\ \A t \in Elems(xquery.query.includeTags) : CodeOf(t) \in RowCodes(ix)
        /\ \A t \in Elems(xquery.query.excludeTags) : CodeOf(t) \notin RowCodes(ix)

\* tag 0 is included, the adjacent tag 1 is excluded, and the filter has
\* kept some rows and dropped others
C12_Witness ==
  /\ XRows /\ xdb.hasTags
  /\ \E t \in Elems(xquery.query.includeTags) : CodeOf(t) = 0
  /\ \E t \in Elems(xquery.query.excludeTags) : CodeOf(t) = 1
  /\ Len(xres.afterTags) > 0
  /\ Len(xres.afterTags) < Len(xres.afterLabel)

\* the tags of the vocabulary the statistics may list: all of them, or after
\* the fallback to the tags those whose name or description matches
ShownTag(code) ==
  XFallbackCase => TagMatches(XOriginal.query.regexp[1], code)

InQuery(code) ==
  LET tag == xdb.properties[xdb.tagsIndex].tags[code + 1]
  IN includes(xquery.query.includeTags, tag) \/ includes(xquery.query.excludeTags, tag)

RowsCarrying(code) == Cardinality({ix \in Elems(xres.indices) : code \in RowCodes(ix)})

\* the codes the statistics should list, in order, among the codes allowed
ExpectedTagList(Allowed(_)) ==
  LET codes == [i \in 1..Len(xdb.tagNames) |-> i - 1]
  IN SelectSeq(codes, LAMBDA c : Allowed(c) /\ InQuery(c)) \o
     SelectSeq(codes, LAMBDA c : Allowed(c) /\ ~InQuery(c) /\ RowsCarrying(c) > 0)

AnyTag(code) == TRUE

Sign(n) == IF n < 0 THEN -1 ELSE IF n > 0 THEN 1 ELSE 0

\* how rows a and b compare on one column, ascending; a NaN compares as
\* neither smaller nor larger
ColumnCompare(property, a, b) ==
  LET va == property.values[a + 1]
      vb == property.values[b + 1]
  IN IF property.type = "number"
     THEN (IF isNaN(va) \/ isNaN(vb) THEN 0 ELSE Sign(va.v - vb.v))
     ELSE defaultStringCompare(property.type, va, vb)

\* how rows a and b compare on a sort key, in the key's direction; "label"
\* is the label, then the tags
KeyCompare(s, a, b) ==
  LET coeff == IF s.order = "<" THEN 1 ELSE -1
      byLabel == IF xdb.labels
                 THEN ColumnCompare(xdb.properties[xdb.labelsIndex], a, b) ELSE 0
      byTags == IF xdb.hasTags
                THEN ColumnCompare(xdb.properties[xdb.tagsIndex], a, b) ELSE 0
  IN coeff *
     ( IF s.fieldId = IdField THEN Sign(xdb.ids[a + 1] - xdb.ids[b + 1])
       ELSE IF s.fieldId = LabelField THEN (IF byLabel # 0 THEN byLabel ELSE byTags)
       ELSE ColumnCompare(findById(xdb.properties, s.fieldId), a, b) )

\* row a comes strictly before row b in the order of the sort-key list
StrictlyBefore(a, b) ==
  LET sortBy == xquery.query.sortBy
  IN \E k \in 1..Len(sortBy) :
       /\ KeyCompare(sortBy[k], a, b) < 0
       /\ \A j \in 1..(k - 1) : KeyCompare(sortBy[j], a, b) = 0

PassedAllFilters ==
  {ix \in Elems(xres.afterTags) :
     \A k \in 1..Len(xquery.query.numericalConstraints) :
       LET c == xquery.query.numericalConstraints[k]
       IN inBounds(findNumerical(xdb, c.fieldId).values[ix + 1], c.bounds)}

\* C14: the indices returned are a permutation of the rows that passed all
\* filters, and no row stands after a row that the sort-key list, first key
\* most significant, puts strictly after it
C14_SortedByKeys ==
  XRows =>
    /\ Elems(xres.indices) = PassedAllFilters
    /\ Len(xres.indices) = Cardinality(PassedAllFilters)
    /\ \A i, j \in 1..Len(xres.indices) :
         i < j => ~StrictlyBefore(xres.indices[j], xres.indices[i])

\* C15: the text of unparseSegmentQuery parses without error, and unparsing
\* the parse gives the same text again
C15_RoundTrip ==
  xtext.done => /\ xtext.reparsed.kind # "errors"
                /\ xtext.again = xtext.text

\* C20: executeSegmentQuery does not throw for a successfully parsed query,
\* and without a database or without inline properties it returns count 0
\* and no indices
C20_NeverThrows ==
  (xpc = "executed" /\ xquery.kind # "errors") =>
    /\ xres.thrown = "none"
    /\ ~xdb.inline /\ xquery.kind = "filter" => xres.count = 0 /\ xres.indices = <<>>


\* the numerical property of the last histogram and its window
HProperty == findNumerical(xdb, xhist.propertyId)
HMin == xhist.window[1]
HMax == xhist.window[2]

\* the rows a histogram of HProperty considers: the rows that passed the label
\* and tag filters and every numerical constraint on another property
HConsidered ==
  {ix \in Elems(xres.afterTags) :
     \A k \in 1..Len(xquery.query.numericalConstraints) :
       LET c == xquery.query.numericalConstraints[k]
       IN c.fieldId # xhist.propertyId =>
            inBounds(findNumerical(xdb, c.fieldId).values[ix + 1], c.bounds)}

HValue(ix) == HProperty.values[ix + 1]
HNumbers == {ix \in HConsidered : ~isNaN(HValue(ix))}

\* the sum of the counts h[b] for b in S
RECURSIVE SumOver(_, _)
SumOver(h, S) ==
  IF S = {} THEN 0
  ELSE LET b == CHOOSE x \in S : TRUE IN h[b] + SumOver(h, S \ {b})

SumBuckets(h, lo, hi) == SumOver(h, {b \in lo..hi : h[b] # 0})

HistogramTaken == xhist # NoHistogram

\* C16: with min < max the values equal to min are counted in bucket 1 and
\* the values equal to max in bucket 256, the boundary buckets hold at most the
\* values outside [min, max], and the counts sum to the number of non-NaN
\* values considered
C16_WindowEndsInMainBuckets ==
  (HistogramTaken /\ HMin < HMax) =>
    /\ xhist.histogram[1] >= Cardinality({ix \in HNumbers : HValue(ix).v = HMin})
    /\ xhist.histogram[numBins] >= Cardinality({ix \in HNumbers : HValue(ix).v = HMax})
    /\ xhist.histogram[0] + xhist.histogram[numBins + 1]
         <= Cardinality({ix \in HNumbers : HValue(ix).v < HMin \/ HValue(ix).v > HMax})
    /\ SumBuckets(xhist.histogram, 0, numBins + 1) = Cardinality(HNumbers)

\* a histogram over rows with a value at each end of the window and a NaN
C16_Witness ==
  /\ HistogramTaken
  /\ HMin < HMax
  /\ \E ix \in HNumbers : HValue(ix).v = HMin
  /\ \E ix \in HNumbers : HValue(ix).v = HMax
  /\ \E ix \in HConsidered : isNaN(HValue(ix))

\* C17: the values below the window minimum are counted in bucket 0 only, the
\* values above the window maximum in bucket 257 only, and the 256 main
\* buckets hold the values inside the window
C17_BoundaryBuckets ==
  HistogramTaken =>
    /\ DOMAIN xhist.histogram = 0..257
    /\ xhist.histogram[0] = Cardinality({ix \in HNumbers : HValue(ix).v < HMin})
    /\ xhist.histogram[257] = Cardinality({ix \in HNumbers : HValue(ix).v > HMax})
    /\ SumBuckets(xhist.histogram, 1, 256)
         = Cardinality({ix \in HNumbers : HValue(ix).v >= HMin /\ HValue(ix).v <= HMax})


MIn == mmaps[1].inlineProperties
MOut == mout.inlineProperties

StrictlyIncreasing(ids) == \A i \in 1..(Len(ids) - 1) : ids[i] < ids[i + 1]

\* C18: normalizeInlineSegmentPropertyMap returns strictly increasing ids,
\* and every id keeps its value in every property column
C18_NormalizeSortsIds ==
  mpc = "normalized" =>
    /\ StrictlyIncreasing(MOut.ids)
    /\ Len(MOut.ids) = Len(MIn.ids)
    /\ Len(MOut.properties) = Len(MIn.properties)
    /\ \A i \in 1..Len(MIn.ids) :
         \E j \in 1..Len(MOut.ids) :
           /\ MOut.ids[j] = MIn.ids[i]
           /\ \A k \in 1..Len(MIn.properties) :
                MOut.properties[k].values[j] = MIn.properties[k].values[i]

\* the value the merged column holds for an id: the source column's value
\* for an id of the source map, the neutral default otherwise
SourceValue(source, k, id) ==
  LET at == {i \in 1..Len(source.ids) : source.ids[i] = id}
  IN IF at # {} THEN source.properties[k].values[CHOOSE i \in at : TRUE]
     ELSE IF source.properties[k].type = "number" THEN NaN ELSE <<>>

MergedColumnsFrom(source, offset) ==
  \A k \in 1..Len(source.properties) :
    /\ Len(MOut.properties[offset + k].values) = Len(MOut.ids)
    /\ \A j \in 1..Len(MOut.ids) :
         MOut.properties[offset + k].values[j] = SourceValue(source, k, MOut.ids[j])

\* C19: the merge of two maps has the union of the ids, strictly increasing,
\* and every column holds the original value or the neutral default; an empty
\* list gives undefined and a one-element list its element
C19_MergeKeepsValues ==
  mpc = "merged" =>
    /\ Len(mmaps) = 0 => ~mout.defined
    /\ Len(mmaps) = 1 => mout = mmaps[1]
    /\ (Len(mmaps) = 2 /\ mmaps[1].hasInline /\ mmaps[2].hasInline) =>
         LET a == mmaps[1].inlineProperties
             b == mmaps[2].inlineProperties
         IN /\ mout.defined /\ mout.hasInline
            /\ StrictlyIncreasing(MOut.ids)
            /\ Elems(MOut.ids) = Elems(a.ids) \cup Elems(b.ids)
            /\ Len(MOut.properties) = Len(a.properties) + Len(b.properties)
            /\ MergedColumnsFrom(a, 0)
            /\ MergedColumnsFrom(b, Len(a.properties))

----------------------------------------------------------------------------
(* The segment index *)

SegRows == 1..Len(sdb.ids)
IsPowerOfTwo(n) == \E k \in 0..8 : n = Pow2(k)

\* C21: after construction and after every addSegment the index agrees with
\* the ids: looking up ids[i] gives i, looking up an absent id gives -1, and
\* the table has a power-of-two size of at least twice the number of ids
C21_IndexConsistent ==
  (sdb.inline /\ scall.op \in {"new", "addSegment"} /\ scall.outcome = "returns") =>
    /\ \A i \in SegRows :
         getSegmentInlineIndex(sdb, sdb.ids[i], shash) = Returns(i - 1)
    /\ \A id \in SegIds :
         (\A i \in SegRows : sdb.ids[i] # id) =>
            getSegmentInlineIndex(sdb, id, shash) = Returns(-1)
    /\ IsPowerOfTwo(Len(sdb.inlineIdToIndex))
    /\ Len(sdb.inlineIdToIndex) >= 2 * Len(sdb.ids)

\* the same for a map that has an id
C21_IndexConsistentNonEmpty ==
  Len(sdb.ids) > 0 => C21_IndexConsistent

\* C22: every lookup and every addSegment returns, whatever the map
C22_CallsReturn ==
  scall.op \in {"getSegmentInlineIndex", "addSegment"} /\ scall.before.inline
    => scall.outcome = "returns"

\* C23: addSegment keeps strictly increasing ids strictly increasing
C23_IdsStayIncreasing ==
  (scall.op = "addSegment" /\ scall.outcome = "returns"
     /\ StrictlyIncreasing(scall.before.ids))
    => StrictlyIncreasing(sdb.ids)

SegAdded ==
  /\ scall.op = "addSegment" /\ scall.outcome = "returns"
  /\ \A i \in 1..Len(scall.before.ids) : scall.before.ids[i] # scall.id

\* the value addSegment is to append to the column of a string or numerical
\* property: the one supplied, or the empty string or NaN
SegExpectedValue(property) ==
  IF property.id \in DOMAIN scall.args THEN scall.args[property.id]
  ELSE IF property.type = "number" THEN NaN ELSE <<>>

\* C24: after addSegment and updateSegmentProperty calls every column is as
\* long as the ids and the ids are distinct; addSegment of a new id appends
\* the id and, to every column, the value supplied or the empty string or NaN,
\* and returns the new row; addSegment of a present id returns its row and
\* changes nothing
C24_ColumnsAndDefaults ==
  (sdb.inline /\ scall.outcome = "returns") =>
    /\ \A k \in 1..Len(sdb.properties) : Len(sdb.properties[k].values) = Len(sdb.ids)
    /\ \A i, j \in SegRows : i # j => sdb.ids[i] # sdb.ids[j]
    /\ SegAdded =>
         /\ sdb.ids = Append(scall.before.ids, scall.id)
         /\ scall.value = Len(scall.before.ids)
         /\ \A k \in 1..Len(sdb.properties) :
              LET property == sdb.properties[k]
                  old == scall.before.properties[k]
              IN /\ SubSeq(property.values, 1, Len(old.values)) = old.values
                 /\ property.type # "tags" =>
                      property.values[Len(sdb.ids)] = SegExpectedValue(old)
    /\ (scall.op = "addSegment" /\ ~SegAdded) =>
         /\ sdb = scall.before
         /\ sdb.ids[scall.value + 1] = scall.id

\* the row whose tags the last call has set, or 0
SegTaggedRow ==
  IF SegAdded THEN Len(sdb.ids)
  ELSE IF scall.op = "updateSegmentProperty" /\ scall.outcome = "returns"
          /\ scall.propertyId = <<"t">> /\ scall.value = TRUE
       THEN CHOOSE i \in SegRows : sdb.ids[i] = scall.id
       ELSE 0

\* C25: the tag codes stored by addSegment or updateSegmentProperty are
\* distinct and ascending, each the index of a tag, and tags and
\* tagDescriptions are equally long
C25_TagCodesDistinctAscending ==
  (sdb.inline /\ SegTaggedRow # 0) =>
    LET property == sdb.properties[findType(sdb.properties, "tags")]
        codes == property.values[SegTaggedRow]
    IN /\ \A i \in 1..(Len(codes) - 1) : codes[i] < codes[i + 1]
       /\ \A i \in 1..Len(codes) : codes[i] >= 0 /\ codes[i] < Len(property.tags)
       /\ Len(property.tags) = Len(property.tagDescriptions)


\* the numerical constraints of the query executed, and the value of the
\* property of constraint k at a row
XConstraints == xquery.query.numericalConstraints
ConstraintValue(k, ix) == findNumerical(xdb, XConstraints[k].fieldId).values[ix + 1]
InRange(value, bounds) ==
  IF value.nan THEN FALSE ELSE bounds[1] <= value.v /\ value.v <= bounds[2]

\* bit k - 1 of a mask
MaskBit(mask, k) == (mask \div Pow2(k - 1)) % 2

\* the rows whose label (when the database has labels) the query's regexp
\* and prefix accept and whose tags hold every include tag and no exclude tag
RowsByLabelAndTags ==
  {ix \in 0..(Len(xdb.ids) - 1) :
     /\ (xdb.labels /\ XOriginal.query.regexp # <<>>) =>
          regexpMatch(XOriginal.query.regexp[1], xdb.properties[xdb.labelsIndex].values[ix + 1])
     /\ (xdb.labels /\ XOriginal.query.prefix # <<>>) =>
          startsWith(xdb.properties[xdb.labelsIndex].values[ix + 1], XOriginal.query.prefix[1])
     /\ \A t \in Elems(XOriginal.query.includeTags) : CodeOf(t) \in RowCodes(ix)
     /\ \A t \in Elems(XOriginal.query.excludeTags) : CodeOf(t) \notin RowCodes(ix)}

\* C26: with numeric constraints, intermediateIndices are the rows that passed
\* the label and tag filters, bit i of a row's mask is set exactly when the
\* value of constraint i's property lies in its bounds (never for NaN), the
\* final rows are the intermediate rows with every bit set, count is their
\* number and total the number of rows of the database
C26_IntermediateAndMask ==
  (XRows /\ Len(XConstraints) > 0) =>
    /\ xres.hasIntermediate
    /\ xres.intermediateIndices = xres.afterTags
    /\ ~xres.fallback => Elems(xres.intermediateIndices) = RowsByLabelAndTags
    /\ Len(xres.intermediateIndicesMask) = Len(xres.intermediateIndices)
    /\ \A j \in 1..Len(xres.intermediateIndices) : \A k \in 1..Len(XConstraints) :
         MaskBit(xres.intermediateIndicesMask[j], k) = 1
           <=> InRange(ConstraintValue(k, xres.intermediateIndices[j]), XConstraints[k].bounds)
    /\ Elems(xres.indices) =
         {xres.intermediateIndices[j] : j \in {i \in 1..Len(xres.intermediateIndices) :
            xres.intermediateIndicesMask[i] = Pow2(Len(XConstraints)) - 1}}
    /\ xres.count = Len(xres.indices)
    /\ xres.count = Cardinality(Elems(xres.indices))
    /\ xres.total = Len(xdb.ids)

\* two constraints, and rows with a NaN value, with one bit set, with the
\* other bit set and with both
C26_Witness ==
  /\ XRows
  /\ Len(XConstraints) = 2
  /\ \E j \in 1..Len(xres.intermediateIndices) :
       isNaN(ConstraintValue(1, xres.intermediateIndices[j]))
  /\ \A m \in 0..3 : \E j \in 1..Len(xres.intermediateIndicesMask) :
       xres.intermediateIndicesMask[j] = m

\* the rows the histogram of HProperty is to count: with a constraint on the
\* property, the rows that pass the label and tag filters and the constraints
\* on the other properties; without one, the final result rows
HConstrained == \E k \in 1..Len(XConstraints) : XConstraints[k].fieldId = xhist.propertyId
HExpectedRows ==
  IF HConstrained
  THEN {ix \in Elems(xres.afterTags) :
          \A k \in 1..Len(XConstraints) :
            XConstraints[k].fieldId # xhist.propertyId
              => InRange(ConstraintValue(k, ix), XConstraints[k].bounds)}
  ELSE Elems(xres.indices)

\* C27: every bucket holds the number of expected rows whose value falls in
\* it, whether or not they pass the property's own constraint
C27_HistogramRows ==
  HistogramTaken =>
    \A b \in 0..(numBins + 1) :
      xhist.histogram[b] =
        Cardinality({ix \in HExpectedRows :
                       /\ ~isNaN(HValue(ix))
                       /\ histogramIndex(HValue(ix).v, HMin, HMax) = b})

\* a histogram of a constrained property that counts a row failing the
\* property's own constraint, while another constraint removes a row
C27_Witness ==
  /\ HistogramTaken
  /\ HConstrained
  /\ \E ix \in HExpectedRows : ~isNaN(HValue(ix)) /\ ix \notin Elems(xres.indices)
  /\ \E ix \in Elems(xres.afterTags) : ix \notin HExpectedRows /\ ~isNaN(HValue(ix))

\* C29: executeSegmentQuery leaves the query it was given as it was, and so
\* the text unparseSegmentQuery gives for it
C29_QueryUnchanged ==
  (xpc = "executed" /\ XOriginal.kind # "errors") =>
    /\ xquery = XOriginal
    /\ unparseSegmentQuery(xdb, xquery) = unparseSegmentQuery(xdb, XOriginal)

----------------------------------------------------------------------------
(* The histogram list *)

HHasIndices == hres.defined /\ hres.res.shape = "rows"
HNumProperties == Len(numericalProperties(hdb))

\* the histogram of property i for the current result and window
HFresh(i) ==
  LET h == updatePropertyHistogram(hres.res, hres.query.query,
                                   numericalProperties(hdb)[i], hbounds[i])
  IN [queryResult |-> hres.rid, window |-> hbounds[i], histogram |-> h.histogram]

\* the histogram of property i was computed for this result and this window
HCached(i) ==
  /\ i <= Len(hlist)
  /\ hlist[i].queryResult = hres.rid
  /\ hlist[i].window = hbounds[i]

\* C28: a call of updatePropertyHistograms leaves the histogram of a property
\* as it is exactly when it was computed for the same result object and for
\* the window in bounds, and computes it anew otherwise, so that afterwards
\* every histogram is that of the current result and window; without a
\* database both lists are emptied, without indices the histogram list is
C28_HistogramCache ==
  [][ hlog'.op = "update" =>
        IF ~hdb.defined THEN hlist' = <<>> /\ hbounds' = <<>>
        ELSE IF ~HHasIndices THEN hlist' = <<>> /\ hbounds' = hbounds
        ELSE /\ hbounds' = hbounds
             /\ \A i \in 1..HNumProperties :
                  /\ HCached(i) => hlist'[i] = hlist[i]
                  /\ ~HCached(i) => hlist'[i] = HFresh(i)
                  /\ (i \in hlog'.recomputed) <=> ~HCached(i)
                  /\ hlist'[i].queryResult = hres.rid
                  /\ hlist'[i].window = hbounds[i] ]_vars

\* a call has kept the histogram of one property, computed for an earlier
\* window setting that is the current one again, and computed the other anew
C28_Witness ==
  /\ hlog.op = "update"
  /\ hdb.defined /\ HHasIndices
  /\ hlog.recomputed = {2}
  /\ Len(hlist) = 2
  /\ hlist[1].window # hlist[2].window
  /\ Len(hres.query.query.numericalConstraints) = 1

----------------------------------------------------------------------------
(* The brush tool *)

ToolSignals == {dispatched.signals[k] : k \in 1..Len(dispatched.signals)}

\* C30: every brushPointsChanged dispatch carries at least one point, and
\* every point the current brush value, which is not -1; with the brush value
\* -1 paint dispatches nothing; a mouse-up dispatches changed and nothing else
C30_BrushDispatch ==
  /\ \A d \in ToolSignals :
       d.signal = "brushPointsChanged" =>
         /\ d.brushPoints # <<>>
         /\ \A k \in 1..Len(d.brushPoints) :
              d.brushPoints[k].value = brushValue /\ d.brushPoints[k].value # -1
  /\ (brushValue = -1 /\ dispatched.event \in {"mousedown", "drag"}) =>
       dispatched.signals = <<>>
  /\ dispatched.event = "mouseup" =>
       dispatched.signals = << [signal |-> "changed", brushPoints |-> <<>>] >>

\* a drag has painted a circle of several points with a brush value set
\* after the activation began
C30_Witness ==
  /\ dispatched.event = "drag"
  /\ brushValue = 3
  /\ \E d \in ToolSignals : d.signal = "brushPointsChanged" /\ Len(d.brushPoints) > 4

====
